---- MODULE Spec2Model ----
(***************************************************************************)
(* Model of the grading pipeline of submit: the job dispatcher             *)
(* (WorkerProxy.do_work and the remote session it drives) over its         *)
(* heap-ordered machine pool, and the verification of a submission against *)
(* the file verifiers of its project (Project.verify_submission).          *)
(***************************************************************************)
EXTENDS Integers, Sequences, FiniteSets, TLC

(***************************************************************************)
(* Bounds of the model.                                                    *)
(***************************************************************************)
NumMachines == 2      \* worker machines configured (settings['worker_machines'])
RetryMachines == 2    \* worker machines configured, in the long retry runs
MaxJobs == 2          \* calls of do_work in one behaviour
MaxTimeouts == 1      \* connect timeouts the network produces in one behaviour
MinLatency == 1       \* elapsed time kill_processes measures on a fast machine
MaxLatency == 7       \* elapsed time kill_processes measures on a slow machine
NumTestables == 2     \* testables of the project
MaxLimit == 3         \* largest size or line bound of a file verifier
CreateLimit == 1      \* largest bound in a request to file_verifier_create
MaxUpload == 1        \* largest size of a stored or uploaded content
NumUsers == 3         \* users of the project
MaxGroupMax == 3      \* largest project.group_max
MaxSubmissions == 3   \* submissions made to the project
MaxFileSize == 3      \* largest size of a submitted file
SubmitLimit == 1      \* largest minimum size, and largest file size, where a
                      \* whole project is verified

(***************************************************************************)
(* Program constants.                                                      *)
(***************************************************************************)
MaxAttempts == 16       \* while attempt < 16
InitialPriority == 5    \* self.machines = [(5., x) for x in machines]
TimeoutPenalty == 10    \* priority += 10
ExceptionPenalty == 5   \* priority += 5
ExpectedKillStatus == 255  \* exc.returncode != 255

Latencies == {MinLatency, MaxLatency}
NoMachine == 0
NoLatency == -1
NoPriority == -1
NoId == 0               \* an id no record has: fetch_by_id returns None
NoSha1 == 0             \* sha1sum=None

VARIABLES
    machines,           \* self.machines: the heap array of <<priority, machine>>
    pc,                 \* position of do_work
    job,                \* the arguments of the current call of do_work
    attempt,            \* local attempt
    priority,           \* local priority
    machine,            \* local machine
    log_type,           \* local log_type
    exc,                \* the exception in flight or propagated by do_work
    result,             \* how the last call of do_work ended
    status,             \* project.status
    is_locked,          \* testable.is_locked, per testable of the project
    test_cases,         \* the TestCase rows of the project, by id
    tc_results,         \* the TestCaseResult rows of the submission
    testable_results,   \* the TestableResult rows of the submission
    committed,          \* the persisted state as of the last commit
    claims,             \* heappops of the current call
    popped,             \* priority the machine was claimed with, until the
                        \* reclaim step has measured a new one
    elapsed,            \* time measured by kill_processes in this attempt
    ops,                \* remote operations of the current attempt, in order
    last_call,          \* what the last remote call (ssh or rsync) observed
    pool_before,        \* self.machines when the call started
    db_before,          \* the persisted state when the call started
    jobs_left,          \* calls of do_work still to come
    timeouts_left,      \* connect timeouts the network may still produce
    file_verifiers,     \* project.file_verifiers, by filename
    testable_fvs,       \* testable.file_verifiers: filenames of its rules
    files,              \* submission.files: the file submitted under a name
    verification_results,  \* submission.verification_results
    retval,             \* what the last verify_submission returned
    verify_calls,       \* what fv.verify returned in the last verification
    fetched,            \* the results directory the attempt read, and its points
    response,           \* what the last request to a view was answered with
    file_table,         \* the File rows, by id
    user_files,         \* request.user.files: ids of the files of the user
    group_max,          \* project.group_max
    user_group,         \* the group of the UserToGroup row of each user
    submission_group,   \* submission.group of the submissions made, in order
    last_group          \* the id of the Group row created last

vars == <<machines, pc, job, attempt, priority, machine, log_type, exc, result,
          status, is_locked, tc_results, testable_results, claims, popped,
          elapsed, ops, last_call, pool_before, db_before, jobs_left,
          timeouts_left, committed, file_verifiers, testable_fvs, files,
          verification_results, retval, verify_calls, test_cases, fetched,
          response, file_table, user_files, group_max, user_group,
          submission_group, last_group>>

dbvars == <<status, is_locked, test_cases, tc_results, testable_results>>
locals == <<attempt, priority, machine, log_type>>
attemptvars == <<popped, elapsed, ops, last_call, fetched>>
callvars == <<job, pool_before, db_before, jobs_left>>
groupvars == <<group_max, user_group, submission_group, last_group>>
filevars == <<file_table, user_files>>
webvars == <<response, filevars, groupvars>>
rulevars == <<file_verifiers, testable_fvs, files, verification_results,
              retval, verify_calls>>
verifyvars == <<rulevars, webvars>>
workervars == <<machines, pc, locals, exc, result, dbvars, committed, claims,
                attemptvars, callvars, timeouts_left>>

(***************************************************************************)
(* heapq on a list of (priority, machine) tuples.                          *)
(***************************************************************************)
\* Python's tuple comparison: priority first, then the machine name.
TupleLt(a, b) == a[1] < b[1] \/ (a[1] = b[1] /\ a[2] < b[2])

RECURSIVE SiftDown(_, _, _, _)
\* heapq._siftdown(heap, startpos, pos) with newitem = heap[pos]
SiftDown(heap, startpos, pos, newitem) ==
    IF pos > startpos /\ TupleLt(newitem, heap[pos \div 2])
    THEN SiftDown([heap EXCEPT ![pos] = heap[pos \div 2]], startpos, pos \div 2, newitem)
    ELSE [heap EXCEPT ![pos] = newitem]

RECURSIVE SiftUp(_, _, _, _)
\* heapq._siftup(heap, pos): bubble the smaller child up to a leaf, then sift down
SiftUp(heap, startpos, pos, newitem) ==
    LET child == 2 * pos
        right == child + 1
    IN  IF child <= Len(heap)
        THEN LET c == IF right <= Len(heap) /\ ~TupleLt(heap[child], heap[right])
                      THEN right ELSE child
             IN  SiftUp([heap EXCEPT ![pos] = heap[c]], startpos, c, newitem)
        ELSE SiftDown([heap EXCEPT ![pos] = newitem], startpos, pos, newitem)

\* A release that is skipped: the machine is not pushed back
HeapPush_Skipped(heap, item) == heap

\* A release that ages the machines that wait in the pool
HeapPush_Aging(heap, item) ==
    LET aged == [i \in 1..Len(heap) |-> <<heap[i][1] + 1, heap[i][2]>>]
    IN  SiftDown(Append(aged, item), 1, Len(heap) + 1, item)

\* heappush(heap, item)
HeapPush(heap, item) ==
    SiftDown(Append(heap, item), 1, Len(heap) + 1, item)

\* A pop that takes the last element of the list instead of the root
HeapPop_Last(heap) ==
    <<heap[Len(heap)], SubSeq(heap, 1, Len(heap) - 1)>>

\* A pop that returns the root and leaves it in the list
HeapPop_Peek(heap) == <<heap[1], heap>>

\* heappop(heap) on a non-empty list: <<returned item, heap afterwards>>
HeapPop(heap) ==
    LET lastelt == heap[Len(heap)]
        rest == SubSeq(heap, 1, Len(heap) - 1)
    IN  IF rest # <<>>
        THEN <<heap[1], SiftUp([rest EXCEPT ![1] = lastelt], 1, 1, lastelt)>>
        ELSE <<lastelt, rest>>

\* The machines in the pool and the priority of one of them.
PoolMachines(heap) == {heap[i][2] : i \in 1..Len(heap)}
PriorityOf(heap, m) == heap[CHOOSE i \in 1..Len(heap) : heap[i][2] = m][1]

(***************************************************************************)
(* The remote calls. An observation is what the subprocess shows: whether  *)
(* the transport's connect timed out, the exit status, and the kind of     *)
(* text stderr ends with.                                                  *)
(***************************************************************************)
ExitStatuses == {0, 1, ExpectedKillStatus}
StderrKinds == {"closed", "other"}

\* ssh: a connect timeout of the transport ends ssh with status 255 and a
\* stderr that ends with 'Connection timed out'; otherwise the remote command
\* decides the status, and stderr is the 'closed by remote host' message for
\* the machine or something else.
SshObservations ==
    {[timeout |-> TRUE, rc |-> ExpectedKillStatus, stderr |-> "timed_out"]}
    \cup [timeout : {FALSE}, rc : {0}, stderr : {"other"}]
    \cup [timeout : {FALSE}, rc : ExitStatuses \ {0}, stderr : StderrKinds]

\* rsync: a connect timeout of the transport ends rsync with a non-zero status.
RsyncObservations ==
    {[timeout |-> TRUE, rc |-> ExpectedKillStatus, stderr |-> "timed_out"]}
    \cup [timeout : {FALSE}, rc : {0, 1}, stderr : {"other"}]

NoCall == [timeout |-> FALSE, rc |-> 0, stderr |-> "none"]

\* An ssh that does not look for 'Connection timed out' in stderr
Ssh_NoTimeoutCheck(obs) ==
    IF obs.rc # 0 THEN "CalledProcessError" ELSE "none"

\* WorkerProxy.ssh: the exception it raises ("none": it returns)
Ssh(obs) ==
    IF obs.rc # 0
    THEN IF obs.stderr = "timed_out" THEN "SSHConnectTimeout"
         ELSE "CalledProcessError"
    ELSE "none"

\* An rsync whose exit status is not checked (call for check_call)
Rsync_Unchecked(obs) == "none"

\* WorkerProxy.rsync: subprocess.check_call raises on every non-zero status
Rsync(obs) ==
    IF obs.rc # 0 THEN "CalledProcessError" ELSE "none"

\* A kill_processes that fails only when both the status and the output
\* are unexpected ('and' for 'or')
KillProcesses_And(obs) ==
    LET e == Ssh(obs)
    IN  IF e = "none" THEN "Exception"
        ELSE IF e = "CalledProcessError"
             THEN IF obs.rc # ExpectedKillStatus /\ obs.stderr # "closed"
                  THEN "Exception" ELSE "none"
             ELSE e

\* WorkerProxy.kill_processes: the exception it raises ("none": it returns
\* the elapsed time)
KillProcesses(obs) ==
    LET e == Ssh(obs)
    IN  IF e = "none" THEN "Exception"
        ELSE IF e = "CalledProcessError"
             THEN IF obs.rc # ExpectedKillStatus \/ obs.stderr # "closed"
                  THEN "Exception" ELSE "none"
             ELSE e

(***************************************************************************)
(* do_work.                                                                *)
(***************************************************************************)
\* The testables of the project and their test cases (testable.test_cases)
Testables == DOMAIN is_locked
TestCases == DOMAIN test_cases
TestCasesOf(t) == {c \in TestCases : test_cases[c].testable = t}

\* The jobs the queue can deliver: the submission id is the one of the stored
\* submission or unknown, the testable id one of the project or unknown
TheSubmission == 1
Jobs == [submission_id : {NoId, TheSubmission},
         testable_id : {NoId} \cup Testables, update_project : BOOLEAN]
NoJob == [submission_id |-> NoId, testable_id |-> NoId, update_project |-> FALSE]

\* A verification without the check of testable.is_locked
VerifyJob_NoTestableCheck(j, st, locked) ==
    IF j.submission_id = NoId THEN "Invalid submission id"
    ELSE IF j.testable_id = NoId THEN "Invalid testable id"
    ELSE IF j.update_project /\ st # "locked"
         THEN "Rejecting update to unlocked project"
    ELSE "none"

\* Lines 99-111: the HandledError the job is rejected with ("none": accepted)
VerifyJob(j, st, locked) ==
    IF j.submission_id = NoId THEN "Invalid submission id"
    ELSE IF j.testable_id = NoId THEN "Invalid testable id"
    ELSE IF j.update_project /\ st # "locked"
         THEN "Rejecting update to unlocked project"
    ELSE IF j.update_project /\ ~locked[j.testable_id]
         THEN "Rejecting update to unlocked testable"
    ELSE "none"

\* One penalty for every exception
Penalized_Flat(e, p) ==
    IF e = "none" THEN p ELSE p + ExceptionPenalty

\* A penalty added in the finally clause, on success too
Penalized_Always(e, p) ==
    IF e = "SSHConnectTimeout" THEN p + TimeoutPenalty
    ELSE p + ExceptionPenalty

\* except SSHConnectTimeout / except Exception: the priority pushed back
Penalized(e, p) ==
    IF e = "SSHConnectTimeout" THEN p + TimeoutPenalty
    ELSE IF e = "none" THEN p
    ELSE p + ExceptionPenalty

\* A handler that retries after every exception of the remote calls
Retried_Any(e) == e \in {"SSHConnectTimeout", "CalledProcessError"}

\* The except clause that catches e retries only SSHConnectTimeout
Retried(e) == e = "SSHConnectTimeout"

\* The persisted state as the session of the worker sees it
Db == [status |-> status, is_locked |-> is_locked, test_cases |-> test_cases,
       tc_results |-> tc_results, testable_results |-> testable_results]

\* A session that writes through to the database at once
Persisted_Autocommit(stored, session) == session

\* Session = scoped_session(sessionmaker(extension=ZopeTransactionExtension())):
\* what the database holds after a write to the session, before the
\* transaction ends: the session is part of the transaction, nothing is
\* stored until the commit
Persisted(stored, session) == stored

\* workers.wrapper around do_work: the transaction is committed when do_work
\* returns and aborted when it raises
WrapperCommit ==
    /\ committed' = Db
    /\ UNCHANGED dbvars

WrapperAbort ==
    /\ status' = committed.status
    /\ is_locked' = committed.is_locked
    /\ test_cases' = committed.test_cases
    /\ tc_results' = committed.tc_results
    /\ testable_results' = committed.testable_results
    /\ UNCHANGED committed

(***************************************************************************)
(* Ingestion of the results of a run: fetch_results, compute_diff,         *)
(* set_expected_files, TestCaseResult and TestableResult.                  *)
(***************************************************************************)
\* The contents of an output file, and of an expected output
Outputs == {"", "a"}

\* A NULL file id, and the File row File.fetch_or_create(data) returns: the
\* row is keyed by the digest of the content
NoFile == <<>>
FileFetchOrCreate(data) == <<data>>

\* pickle.dumps(Diff(expected, actual)), and the raw content of an output file
PickledDiff(expected, actual) == <<"Diff", expected, actual>>
RawOutput(actual) == <<"raw", actual>>

\* Diff.outputs_match(): the outputs are the same text
OutputsMatch(expected, actual) == expected = actual

\* The entries of the summary (file test_cases) and the content of the file
\* testable, as the remote worker writes them
Entries ==
    {[status |-> "success", extra |-> 0], [status |-> "signal", extra |-> 9]}
TestableData ==
    {[status |-> "success", make |-> "built"],
     [status |-> "success", make |-> "built with warnings"],
     [status |-> "make_failed", make |-> "error"]}

\* The results directory of a run whose outputs are the expected ones
PlainEntry == [status |-> "success", extra |-> 0]
PlainOutput == "a"
PlainTestableData == [status |-> "success", make |-> "built"]

\* The results of a run that gave the expected outputs
PlainRow(id) ==
    [test_case |-> id, status |-> PlainEntry.status,
     extra |-> PlainEntry.extra, diff |-> NoFile]
PlainTestableResult(t, points) ==
    [testable |-> t, points |-> points, status |-> PlainTestableData.status,
     make_results |-> PlainTestableData.make]

\* The artifacts rsync retrieves: the summary (no file test_cases: no
\* entries), the output files tc_<id> and the file testable (<<>>: no file)
Artifact(summary, outputs, testable) ==
    [summary |-> summary, outputs |-> outputs, testable |-> testable]

\* What an attempt knows of a results directory before fetch_results read one
NoFetch == [none |-> TRUE]

\* Lines 174-218: the results directory fetch_results read, with the local
\* variable points as the loop left it
Fetched(artifacts, points) ==
    [none |-> FALSE, summary |-> artifacts.summary,
     outputs |-> artifacts.outputs, testable |-> artifacts.testable,
     points |-> points]

\* A lookup that never finds the result of an earlier run
FetchByIds_None(rows, test_case_id) == {}

\* TestCaseResult.fetch_by_ids(submission.id, test_case.id): the rows of the
\* query; first() takes one of them
FetchByIds(rows, test_case_id) == {r \in rows : r.test_case = test_case_id}
First(rows) == CHOOSE r \in rows : TRUE

\* TestCaseResult.update(data): the attributes in data are set
Update(row, data) == [row EXCEPT !.status = data.status, !.extra = data.extra]

\* TestCaseResult(**results[test_case.id])
TestCaseResult(test_case_id, data) ==
    [test_case |-> test_case_id, status |-> data.status, extra |-> data.extra,
     diff |-> NoFile]

\* Lines 41-44 of compute_diff: the actual output is empty when the run left
\* no output file
ActualOutput(outputs, test_case_id) ==
    IF test_case_id \in DOMAIN outputs THEN outputs[test_case_id] ELSE ""

\* compute_diff: whether the outputs match, and the row of the result
ComputeDiff(test_case, row, actual) ==
    IF ~OutputsMatch(test_case.expected, actual)
    THEN [matches |-> FALSE,
          row |-> [row EXCEPT !.diff = FileFetchOrCreate(
                       PickledDiff(test_case.expected, actual))]]
    ELSE [matches |-> TRUE, row |-> row]

\* The state of the loop of fetch_results over the test cases
Ingested(rows, points) == [rows |-> rows, points |-> points]

\* A loop body that leaves the result of a test case that did not run
Deleted_Kept(rows, found) == rows

\* Lines 192-193: Session.delete of the result of a test case that did not run
Deleted(rows, found) ==
    IF found # {} THEN rows \ {First(found)} ELSE rows

\* Points for every matching output, whatever the status of the test case
Awarded_AnyStatus(test_case, matches, row_status) ==
    IF matches THEN test_case.points ELSE 0

\* Lines 206-207: what a diff test case adds to the points of the run
Awarded(test_case, matches, row_status) ==
    IF matches /\ row_status = "success" THEN test_case.points ELSE 0

\* Lines 189-211: the body of the loop, for one test case of the testable
IngestOne(st, id, artifacts) ==
    LET test_case == test_cases[id]
        found == FetchByIds(st.rows, id)
    IN  IF id \notin DOMAIN artifacts.summary
        THEN Ingested(Deleted(st.rows, found), st.points)
        ELSE LET data == artifacts.summary[id]
                 others == IF found # {} THEN st.rows \ {First(found)}
                           ELSE st.rows
                 row == IF found # {} THEN Update(First(found), data)
                        ELSE TestCaseResult(id, data)
             IN  IF test_case.output_type = "diff"
                 THEN LET d == ComputeDiff(test_case, row,
                                   ActualOutput(artifacts.outputs, id))
                      IN  Ingested(others \cup {d.row},
                              st.points
                              + Awarded(test_case, d.matches, d.row.status))
                 ELSE IF id \in DOMAIN artifacts.outputs
                 THEN Ingested(others \cup
                          {[row EXCEPT !.diff = FileFetchOrCreate(
                                RawOutput(artifacts.outputs[id]))]},
                          st.points)
                 ELSE Ingested(others \cup {row}, st.points)

\* The results directories of runs in which the test cases that ran gave the
\* expected output
PlainArtifacts ==
    {Artifact([c \in ran |-> PlainEntry], [c \in ran |-> PlainOutput], tf) :
        ran \in SUBSET DOMAIN test_cases, tf \in {<<>>, <<PlainTestableData>>}}

RECURSIVE IngestAll(_, _, _)
\* Lines 185-211: the loop over testable.test_cases
IngestAll(st, todo, artifacts) ==
    IF todo = {} THEN st
    ELSE LET id == CHOOSE x \in todo : \A y \in todo : x <= y
         IN  IngestAll(IngestOne(st, id, artifacts), todo \ {id}, artifacts)

\* BasicBase.fetch_by(**kwargs) on TestableResult: the rows that have every
\* keyword of the call
FetchBy(rows, kwargs) ==
    {r \in rows : /\ r.testable = kwargs.testable
                  /\ r.points = kwargs.points
                  /\ r.status = kwargs.status}

\* A fetch_or_create that adds the points of the run to those of the row
FetchOrCreate_AddPoints(rows, make_results, kwargs) ==
    LET found == FetchBy(rows, kwargs)
    IN  IF found # {}
        THEN (rows \ {First(found)})
                 \cup {[First(found) EXCEPT
                            !.make_results = make_results,
                            !.points = @ + kwargs.points]}
        ELSE rows \cup {[testable |-> kwargs.testable,
                         points |-> kwargs.points, status |-> kwargs.status,
                         make_results |-> make_results]}

\* TestableResult.fetch_or_create(make_results, **kwargs): the rows of the
\* session afterwards; the new row joins the session through the backrefs
FetchOrCreate(rows, make_results, kwargs) ==
    LET found == FetchBy(rows, kwargs)
    IN  IF found # {}
        THEN (rows \ {First(found)})
                 \cup {[First(found) EXCEPT !.make_results = make_results]}
        ELSE rows \cup {[testable |-> kwargs.testable,
                         points |-> kwargs.points, status |-> kwargs.status,
                         make_results |-> make_results]}

\* The primary key of TestCaseResult and
\* UniqueConstraint('submission_id', 'testable_id') of TestableResult: the
\* flush of the commit raises IntegrityError when two rows have one key
CanCommit(db) ==
    /\ \A r1, r2 \in db.tc_results : r1.test_case = r2.test_case => r1 = r2
    /\ \A r1, r2 \in db.testable_results : r1.testable = r2.testable => r1 = r2

RECURSIVE Shuffles(_)
\* random.shuffle(machines): every order of the configured machines
Shuffles(S) ==
    IF S = {} THEN {<<>>}
    ELSE UNION {{<<x>> \o p : p \in Shuffles(S \ {x})} : x \in S}

\* The network may produce a connect timeout while its budget lasts.
IsTimeout(obs) == obs.timeout \/ Ssh(obs) = "SSHConnectTimeout"
Allowed(obs) == IsTimeout(obs) => timeouts_left > 0
Spend(obs) == timeouts_left' = IF IsTimeout(obs) THEN timeouts_left - 1
                               ELSE timeouts_left

(***************************************************************************)
(* Verification of a submission: FileVerifier.verify,                      *)
(* VerificationResults and Project.verify_submission.                      *)
(***************************************************************************)
\* The filenames rules and submitted files can have
Filenames == {"main.c", "util.h"}

\* None in a nullable Integer column (max_size, max_lines)
NoLimit == -1

\* A dict, as a function of its keys
EmptyDict == [k \in {} |-> {}]
Put(d, k, v) == [x \in DOMAIN d \cup {k} |-> IF x = k THEN v ELSE d[x]]
Del(d, k) == [x \in DOMAIN d \ {k} |-> d[x]]

\* The truth value of 'self.max_size and ...': None and 0 are false
Truthy(x) == x # NoLimit /\ x # 0

\* An error message: the format string and the number formatted into it
Error(text, arg) == [text |-> text, arg |-> arg]
FileMissing == [text |-> "file missing", arg |-> NoLimit]

\* A size check where the maximum is tested also when the minimum failed
\* ('if' for 'elif')
SizeErrors_If(fv, file_) ==
    (IF file_.size < fv.min_size
     THEN <<Error("must be >= {0} bytes", fv.min_size)>> ELSE <<>>)
    \o (IF Truthy(fv.max_size) /\ file_.size > fv.max_size
        THEN <<Error("must be <= {0} bytes", fv.max_size)>> ELSE <<>>)

\* A size check that compares with '<=' and '>='
SizeErrors_Strict(fv, file_) ==
    IF file_.size <= fv.min_size
    THEN <<Error("must be >= {0} bytes", fv.min_size)>>
    ELSE IF Truthy(fv.max_size) /\ file_.size >= fv.max_size
    THEN <<Error("must be <= {0} bytes", fv.max_size)>>
    ELSE <<>>

\* FileVerifier.verify, lines 225-228: the size errors
SizeErrors(fv, file_) ==
    IF file_.size < fv.min_size
    THEN <<Error("must be >= {0} bytes", fv.min_size)>>
    ELSE IF Truthy(fv.max_size) /\ file_.size > fv.max_size
    THEN <<Error("must be <= {0} bytes", fv.max_size)>>
    ELSE <<>>

\* FileVerifier.verify, lines 229-232: the line count errors
LineErrors(fv, file_) ==
    IF file_.lines < fv.min_lines
    THEN <<Error("must have >= {0} lines", fv.min_lines)>>
    ELSE IF Truthy(fv.max_lines) /\ file_.lines > fv.max_lines
    THEN <<Error("must have <= {0} lines", fv.max_lines)>>
    ELSE <<>>

\* The content of a file is a sequence of characters; a newline ends a line
Newline == "\n"

\* File.__init__, lines 158-162: the File row of the data
CountLines(data) == Cardinality({i \in DOMAIN data : data[i] = Newline})
FileRow(data) == [size |-> Len(data), lines |-> CountLines(data), data |-> data]

RECURSIVE ReadLines(_)
\* Iteration over the open file: the lines, each with its newline; the rest
\* after the last newline is a line too
ReadLines(data) ==
    LET ends == {i \in DOMAIN data : data[i] = Newline}
        end == CHOOSE i \in ends : \A k \in ends : i <= k
    IN  IF data = <<>> THEN <<>>
        ELSE IF ends = {} THEN <<data>>
        ELSE <<SubSeq(data, 1, end)>>
                 \o ReadLines(SubSeq(data, end + 1, Len(data)))

\* A warning pattern: None (or the empty string), or a regular expression of
\* one character class for each character of a match
NoPattern == <<>>
MatchesAt(pattern, line, pos) ==
    /\ pos + Len(pattern) - 1 <= Len(line)
    /\ \A k \in DOMAIN pattern : line[pos + k - 1] \in pattern[k]

RECURSIVE FindAll_Overlapping(_, _, _)
\* A scan that goes on one character after the start of a match
FindAll_Overlapping(pattern, line, pos) ==
    IF pos > Len(line) THEN <<>>
    ELSE IF MatchesAt(pattern, line, pos)
    THEN <<SubSeq(line, pos, pos + Len(pattern) - 1)>>
             \o FindAll_Overlapping(pattern, line, pos + 1)
    ELSE FindAll_Overlapping(pattern, line, pos + 1)

RECURSIVE FindAll(_, _, _)
\* regex.findall(line): the matches from left to right, each search starting
\* where the last match ended
FindAll(pattern, line, pos) ==
    IF pos > Len(line) THEN <<>>
    ELSE IF MatchesAt(pattern, line, pos)
    THEN <<SubSeq(line, pos, pos + Len(pattern) - 1)>>
             \o FindAll(pattern, line, pos + Len(pattern))
    ELSE FindAll(pattern, line, pos + 1)

RECURSIVE ScanLines(_, _, _)
\* Lines 239-241: for i, line in enumerate(...), one warning for every match
ScanLines(pattern, lines, i) ==
    IF i >= Len(lines) THEN <<>>
    ELSE LET found == FindAll(pattern, lines[i + 1], 1)
         IN  [k \in DOMAIN found |-> [lineno |-> i + 1, token |-> found[k]]]
                 \o ScanLines(pattern, lines, i + 1)

\* FileVerifier.verify, lines 234-242: None without a warning pattern, else
\* the list of one warning for every match, with the number of its line
NoWarnings == [none |-> TRUE, list |-> <<>>]
Warnings(fv, file_) ==
    IF fv.warning_regex = NoPattern THEN NoWarnings
    ELSE [none |-> FALSE,
          list |-> ScanLines(fv.warning_regex, ReadLines(file_.data), 0)]

\* 'if warnings:': neither None nor an empty list
AnyWarnings(warnings) == ~warnings.none /\ warnings.list # <<>>

\* A verification that checks the lines before the size
Verify_LinesFirst(fv, file_) ==
    [errors |-> LineErrors(fv, file_) \o SizeErrors(fv, file_),
     warnings |-> Warnings(fv, file_)]

\* FileVerifier.verify: errors, warnings
Verify(fv, file_) ==
    [errors |-> SizeErrors(fv, file_) \o LineErrors(fv, file_),
     warnings |-> Warnings(fv, file_)]

\* VerificationResults.__init__; _extra_filenames is None (<<>>) or a
\* frozenset (<<the set>>)
NoExtra == <<>>
NewResults ==
    [errors_by_filename |-> EmptyDict, extra_filenames |-> NoExtra,
     missing_to_testable_ids |-> EmptyDict, warnings_by_filename |-> EmptyDict]

\* A report that keeps one testable for a missing set
AddTestableIdForMissingFiles_Replace(results, testable_id, missing_files) ==
    [results EXCEPT !.missing_to_testable_ids =
        Put(@, missing_files, {testable_id})]

\* VerificationResults.add_testable_id_for_missing_files
AddTestableIdForMissingFiles(results, testable_id, missing_files) ==
    [results EXCEPT !.missing_to_testable_ids =
        Put(@, missing_files,
            (IF missing_files \in DOMAIN @ THEN @[missing_files] ELSE {})
                \cup {testable_id})]

\* VerificationResults.set_errors_for_filename
SetErrorsForFilename(results, errors, filename) ==
    [results EXCEPT !.errors_by_filename = Put(@, filename, errors)]

\* VerificationResults.set_extra_filenames
SetExtraFilenames(results, filenames) ==
    [results EXCEPT !.extra_filenames = <<filenames>>]

\* VerificationResults.set_warnings_for_filename
SetWarningsForFilename(results, warnings, filename) ==
    [results EXCEPT !.warnings_by_filename = Put(@, filename, warnings)]

\* A verification that takes every rule of the project for in use
InUse_AllRules == DOMAIN file_verifiers

\* Lines 442-443: the filenames of the file verifiers some testable uses
InUse == UNION {testable_fvs[t] : t \in DOMAIN testable_fvs}

\* The state of the first loop of verify_submission
LoopState(results, valid_files, file_mapping, calls) ==
    [results |-> results, valid_files |-> valid_files,
     file_mapping |-> file_mapping, calls |-> calls]

\* A loop body that reports a missing file for optional rules too
VerifyOne_NoOptional(st, filename) ==
    LET fv == file_verifiers[filename]
    IN  IF filename \in DOMAIN st.file_mapping
        THEN LET r == Verify(fv, st.file_mapping[filename])
                 r1 == IF r.errors # <<>>
                       THEN SetErrorsForFilename(st.results, r.errors, filename)
                       ELSE st.results
                 r2 == IF AnyWarnings(r.warnings)
                       THEN SetWarningsForFilename(r1, r.warnings.list, filename)
                       ELSE r1
             IN  LoopState(r2,
                           IF r.errors # <<>> THEN st.valid_files
                           ELSE st.valid_files \cup {filename},
                           Del(st.file_mapping, filename),
                           Put(st.calls, filename, r))
        ELSE [st EXCEPT !.results =
                 SetErrorsForFilename(@, <<FileMissing>>, filename)]

\* A loop body that takes a file with warnings for not valid
VerifyOne_WarningsInvalid(st, filename) ==
    LET fv == file_verifiers[filename]
    IN  IF filename \in DOMAIN st.file_mapping
        THEN LET r == Verify(fv, st.file_mapping[filename])
                 r1 == IF r.errors # <<>>
                       THEN SetErrorsForFilename(st.results, r.errors, filename)
                       ELSE st.results
                 r2 == IF AnyWarnings(r.warnings)
                       THEN SetWarningsForFilename(r1, r.warnings.list, filename)
                       ELSE r1
             IN  LoopState(r2,
                           IF r.errors # <<>> \/ AnyWarnings(r.warnings)
                           THEN st.valid_files
                           ELSE st.valid_files \cup {filename},
                           Del(st.file_mapping, filename),
                           Put(st.calls, filename, r))
        ELSE IF ~fv.optional
        THEN [st EXCEPT !.results =
                 SetErrorsForFilename(@, <<FileMissing>>, filename)]
        ELSE st

\* Lines 446-457: the body of the loop over the in-use file verifiers
VerifyOne(st, filename) ==
    LET fv == file_verifiers[filename]
    IN  IF filename \in DOMAIN st.file_mapping
        THEN LET r == Verify(fv, st.file_mapping[filename])
                 r1 == IF r.errors # <<>>
                       THEN SetErrorsForFilename(st.results, r.errors, filename)
                       ELSE st.results
                 r2 == IF AnyWarnings(r.warnings)
                       THEN SetWarningsForFilename(r1, r.warnings.list, filename)
                       ELSE r1
             IN  LoopState(r2,
                           IF r.errors # <<>> THEN st.valid_files
                           ELSE st.valid_files \cup {filename},
                           Del(st.file_mapping, filename),
                           Put(st.calls, filename, r))
        ELSE IF ~fv.optional
        THEN [st EXCEPT !.results =
                 SetErrorsForFilename(@, <<FileMissing>>, filename)]
        ELSE st

RECURSIVE VerifyAll(_, _)
\* Lines 445-457: the loop over the set of in-use file verifiers
VerifyAll(st, todo) ==
    IF todo = {} THEN st
    ELSE LET filename == CHOOSE x \in todo : TRUE
         IN  VerifyAll(VerifyOne(st, filename), todo \ {filename})

\* Lines 458-459: the filenames no rule took are recorded, when there are any
RecordExtra(st) ==
    IF DOMAIN st.file_mapping # {}
    THEN SetExtraFilenames(st.results, DOMAIN st.file_mapping)
    ELSE st.results

\* Lines 464-465: the required filenames of the testable that are not valid
Missing(testable, valid_files) ==
    {x \in testable_fvs[testable] : ~file_verifiers[x].optional} \ valid_files

\* A verification that takes a testable without rules for eligible
Eligible_NoRules(testable, valid_files) == Missing(testable, valid_files) = {}

\* A verification that returns only the testables that have no result yet
Eligible_Ungraded(testable, valid_files) ==
    /\ Missing(testable, valid_files) = {}
    /\ testable_fvs[testable] # {}
    /\ \A r \in testable_results : r.testable # testable

\* Lines 466-469: the testable is appended to the list returned
Eligible(testable, valid_files) ==
    /\ Missing(testable, valid_files) = {}
    /\ testable_fvs[testable] # {}

RECURSIVE DetermineValid(_, _, _, _)
\* Lines 462-469: the loop over the testables of the project; results and the
\* list returned
DetermineValid(testables, results, valid, valid_files) ==
    IF testables = <<>> THEN [results |-> results, retval |-> valid]
    ELSE LET testable == Head(testables)
             missing == Missing(testable, valid_files)
         IN  IF missing # {}
             THEN DetermineValid(Tail(testables),
                      AddTestableIdForMissingFiles(results, testable, missing),
                      valid, valid_files)
             ELSE IF Eligible(testable, valid_files)
             THEN DetermineValid(Tail(testables), results,
                                 Append(valid, testable), valid_files)
             ELSE DetermineValid(Tail(testables), results, valid, valid_files)

\* self.testables, in the order of their ids
TestableList == [i \in 1..Cardinality(DOMAIN testable_fvs) |-> i]

\* Project.verify_submission for a submission with the files submitted: the
\* report, the list returned and the results of the calls of fv.verify
VerifySubmissionOf(submitted) ==
    LET st == VerifyAll(LoopState(NewResults, {}, submitted, EmptyDict), InUse)
        out == DetermineValid(TestableList, RecordExtra(st), <<>>,
                              st.valid_files)
    IN  [results |-> out.results, retval |-> out.retval, calls |-> st.calls]
VerifySubmissionResult == VerifySubmissionOf(files)

\* No report yet: verification_results is NULL
NoReport == [none |-> TRUE]

\* No request was answered yet
NoResponse == [none |-> TRUE]
InitRequests ==
    /\ response = NoResponse
    /\ file_table = <<>>
    /\ user_files = {}
    /\ user_group = [u \in 1..NumUsers |-> NoId]
    /\ submission_group = <<>>
    /\ last_group = NoId

\* Line 373: group_max has default 1
InitNoRequests == InitRequests /\ group_max = 1

\* A report that is merged into the report of the previous verification
MergeDict(old, new) ==
    [k \in DOMAIN old \cup DOMAIN new |->
        IF k \in DOMAIN new THEN new[k] ELSE old[k]]
StoreReport_Merged(previous, results) ==
    IF previous = NoReport THEN results
    ELSE [errors_by_filename |->
              MergeDict(previous.errors_by_filename, results.errors_by_filename),
          extra_filenames |-> results.extra_filenames,
          missing_to_testable_ids |->
              MergeDict(previous.missing_to_testable_ids,
                        results.missing_to_testable_ids),
          warnings_by_filename |->
              MergeDict(previous.warnings_by_filename,
                        results.warnings_by_filename)]

\* Line 475, submission.verification_results = results: the report stored
\* for the submission
StoreReport(previous, results) == results

\* Project.verify_submission(base_path, submission): lines 471-476 drop the
\* results of the submission and store the report; the transaction of the
\* verification ends with it
VerifySubmission ==
    /\ pc = "idle"
    /\ LET v == VerifySubmissionResult
       IN  /\ verification_results' =
                  StoreReport(verification_results, v.results)
           /\ retval' = v.retval
           /\ verify_calls' = v.calls
    /\ tc_results' = {}
    /\ testable_results' = {}
    /\ UNCHANGED <<machines, pc, job, attempt, priority, machine, log_type,
                   exc, result, status, is_locked, claims, popped, elapsed,
                   ops, last_call, pool_before, db_before, jobs_left,
                   timeouts_left, file_verifiers, testable_fvs, files,
                   test_cases, fetched, webvars>>
    /\ committed' = Db'

\* Variant: the bounds on lines are not compared
Creatable_SizeOnly(fv) ==
    /\ ~(fv.max_size # NoLimit /\ fv.max_size < fv.min_size)
    /\ ~(fv.min_size < fv.min_lines)
    /\ ~(fv.max_size # NoLimit /\ fv.max_lines # NoLimit
         /\ fv.max_size < fv.max_lines)

\* file_verifier_create, lines 122-129: the rules it accepts
Creatable(fv) ==
    /\ ~(fv.max_size # NoLimit /\ fv.max_size < fv.min_size)
    /\ ~(fv.max_lines # NoLimit /\ fv.max_lines < fv.min_lines)
    /\ ~(fv.min_size < fv.min_lines)
    /\ ~(fv.max_size # NoLimit /\ fv.max_lines # NoLimit
         /\ fv.max_size < fv.max_lines)

\* The validated form of file_verifier_create, lines 112-117: a filename,
\* numbers that are not negative, a maximum that may be left out
FileVerifierRequests ==
    [filename : Filenames,
     min_size : 0..CreateLimit, max_size : (0..CreateLimit) \cup {NoLimit},
     min_lines : 0..CreateLimit, max_lines : (0..CreateLimit) \cup {NoLimit},
     project_id : 0..1]

\* Line 132, Project.fetch_by_id(project_id): the project of the model has
\* id 1
ProjectExists(project_id) == project_id = 1

\* Lines 135-137: the FileVerifier built from the request; optional and
\* warning_regex are left to their defaults
NewFileVerifier(request) ==
    [min_size |-> request.min_size, max_size |-> request.max_size,
     min_lines |-> request.min_lines, max_lines |-> request.max_lines,
     optional |-> FALSE, warning_regex |-> NoPattern]

\* file_verifier_create: the bounds are compared, the project is looked up,
\* the rule is flushed, which UniqueConstraint('filename', 'project_id')
\* refuses for a filename the project has a rule for, and committed
FileVerifierCreate(request) ==
    /\ LET outcome ==
               IF ~Creatable(NewFileVerifier(request)) THEN "bad_request"
               ELSE IF ~ProjectExists(request.project_id) THEN "bad_request"
               ELSE IF request.filename \in DOMAIN file_verifiers
               THEN "conflict"
               ELSE "created"
       IN  /\ response' = [status |-> outcome, request |-> request]
           /\ file_verifiers' =
                  IF outcome = "created"
                  THEN Put(file_verifiers, request.filename,
                           NewFileVerifier(request))
                  ELSE file_verifiers
    /\ UNCHANGED <<testable_fvs, files, verification_results, retval,
                   verify_calls, filevars, groupvars>>
    /\ UNCHANGED workervars

\* The contents of at most n characters
DataOver(chars, n) == UNION {[1..k -> chars] : k \in 0..n}

\* The warning patterns 'aa' and '[ab]'
PatternAA == <<{"a"}, {"a"}>>
PatternAB == <<{"a", "b"}>>

\* The rules and files of the verification of one rule: every rule the
\* table can hold, those file_verifier_create accepts among them
Limits == 0..MaxLimit
Rules ==
    [min_size : Limits, max_size : Limits \cup {NoLimit},
     min_lines : Limits, max_lines : Limits \cup {NoLimit},
     optional : BOOLEAN, warning_regex : {NoPattern, PatternAA}]
Files == {FileRow(data) : data \in DataOver({"a", Newline}, MaxFileSize)}

\* The rules and files of the verification of a project: a minimum size, no
\* other bound, no warning pattern
SimpleRules ==
    [min_size : 0..SubmitLimit, max_size : {NoLimit}, min_lines : {0},
     max_lines : {NoLimit}, optional : BOOLEAN, warning_regex : {NoPattern}]
SimpleFiles == {FileRow(data) : data \in DataOver({"a"}, SubmitLimit)}

\* The rules and files of the scan for warnings: no bound on size or lines,
\* a pattern, any text of the three characters
WarningRules ==
    [min_size : {0}, max_size : {NoLimit}, min_lines : {0},
     max_lines : {NoLimit}, optional : {FALSE},
     warning_regex : {PatternAA, PatternAB}]
WarningFiles ==
    {FileRow(data) : data \in DataOver({"a", "b", Newline}, MaxFileSize)}

\* A dict with the keys in keys and values in values
Dicts(keys, values) == UNION {[ks -> values] : ks \in SUBSET keys}

\* __init__, lines 67-71: the n configured machines, shuffled, each with
\* priority 5, as a plain list
InitPool(n) ==
    \E order \in Shuffles(1..n) :
        machines = [i \in 1..n |-> <<InitialPriority, order[i]>>]

InitCall ==
    /\ pc = "idle"
    /\ job = NoJob
    /\ attempt = 0
    /\ priority = 0
    /\ machine = NoMachine
    /\ log_type = "none"
    /\ exc = "none"
    /\ result = "none"
    /\ claims = 0
    /\ popped = NoPriority
    /\ elapsed = NoLatency
    /\ ops = <<>>
    /\ last_call = NoCall
    /\ fetched = NoFetch
    /\ pool_before = machines
    /\ db_before = Db
    /\ committed = Db

\* One diff test case for each of n testables, test case t for testable t,
\* with the output of a plain run as its expected output
PlainPoints == 1
PlainTestCases(n) ==
    [c \in 1..n |-> [testable |-> c, output_type |-> "diff",
                     points |-> PlainPoints, expected |-> PlainOutput]]

\* The persisted state when the worker starts: a project of n testables, each
\* waiting for its expected output to be regenerated or not; the project is
\* 'locked' while a testable is; no results yet
InitDb(n) ==
    /\ is_locked \in [1..n -> BOOLEAN]
    /\ status = IF \E t \in 1..n : is_locked[t] THEN "locked" ELSE "notready"
    /\ test_cases = PlainTestCases(n)
    /\ tc_results = {}
    /\ testable_results = {}

\* The persisted state when the worker starts after earlier runs: as InitDb,
\* with the results of the testables that were run before
InitDbRerun(n) ==
    /\ is_locked \in [1..n -> BOOLEAN]
    /\ status = IF \E t \in 1..n : is_locked[t] THEN "locked" ELSE "notready"
    /\ test_cases = PlainTestCases(n)
    /\ \E done \in SUBSET (1..n) :
          /\ tc_results = {PlainRow(t) : t \in done}
          /\ testable_results =
                 {PlainTestableResult(t, PlainPoints) : t \in done}

\* A submission is verified while the dispatcher is idle: no machines, no
\* jobs, no testable locked; the submission has the results of the testables
\* in done, from earlier runs
InitProjectIdle(done) ==
    /\ InitPool(0)
    /\ is_locked = [t \in 1..NumTestables |-> FALSE]
    /\ status = "notready"
    /\ test_cases = PlainTestCases(NumTestables)
    /\ tc_results = {PlainRow(t) : t \in done}
    /\ testable_results = {PlainTestableResult(t, PlainPoints) : t \in done}
    /\ InitCall
    /\ jobs_left = 0
    /\ timeouts_left = 0
    /\ verification_results = NoReport
    /\ retval = <<>>
    /\ verify_calls = EmptyDict

InitVerifyIdle(done) == InitProjectIdle(done) /\ InitNoRequests

\* One testable with one rule, of any bounds file_verifier_create accepts,
\* and a submission of one file under the filename of the rule
MainFile == "main.c"
InitVerifyRule ==
    /\ InitVerifyIdle({})
    /\ file_verifiers \in [{MainFile} -> Rules]
    /\ testable_fvs = [t \in 1..NumTestables |->
                          IF t = 1 THEN {MainFile} ELSE {}]
    /\ files \in [{MainFile} -> Files]

\* A project with rules for some of the filenames, testables that use some of
\* the rules, and a submission with files under some of the filenames
InitVerifyProject ==
    /\ \E done \in SUBSET (1..NumTestables) : InitVerifyIdle(done)
    /\ file_verifiers \in Dicts(Filenames, SimpleRules)
    /\ testable_fvs \in [1..NumTestables -> SUBSET DOMAIN file_verifiers]
    /\ files \in Dicts(Filenames, SimpleFiles)

\* One testable with one rule that has a warning pattern, and a submission of
\* one file under the filename of the rule
InitVerifyWarnings ==
    /\ InitVerifyIdle({})
    /\ file_verifiers \in [{MainFile} -> WarningRules]
    /\ testable_fvs = [t \in 1..NumTestables |->
                          IF t = 1 THEN {MainFile} ELSE {}]
    /\ files \in [{MainFile} -> WarningFiles]

InitVerify == InitVerifyRule \/ InitVerifyProject \/ InitVerifyWarnings

\* The report of an earlier verification of the submission, under rules the
\* project had then: testable 1 needed util.h, which is not in the submission
StaleReport ==
    [errors_by_filename |-> Put(EmptyDict, "util.h", <<FileMissing>>),
     extra_filenames |-> NoExtra,
     missing_to_testable_ids |-> Put(EmptyDict, {"util.h"}, {1}),
     warnings_by_filename |-> EmptyDict]

\* A submission of at most one file to a project of one testable with at most
\* one rule; the submission was verified before or not; one machine, a
\* network without timeouts
InitReverify ==
    /\ InitPool(1)
    /\ InitDb(1)
    /\ InitCall
    /\ jobs_left = MaxJobs
    /\ timeouts_left = 0
    /\ file_verifiers \in Dicts({MainFile}, SimpleRules)
    /\ testable_fvs \in [1..1 -> SUBSET DOMAIN file_verifiers]
    /\ files \in Dicts({MainFile}, SimpleFiles)
    /\ verification_results \in {NoReport, StaleReport}
    /\ retval = <<>>
    /\ verify_calls = EmptyDict
    /\ InitNoRequests

(***************************************************************************)
(* The File table: File.fetch_or_create and the view file_create.         *)
(***************************************************************************)
\* The contents that are stored or uploaded
Uploads == DataOver({"a", Newline}, MaxUpload)

\* ord and chr on the characters of the contents
Byte(c) == IF c = "a" THEN 97 ELSE 10
Char(b) == IF b = 97 THEN "a" ELSE IF b = 10 THEN Newline ELSE "?"

RECURSIVE Sha1(_)
\* sha1(data).hexdigest(): contents that differ have digests that differ;
\* the digest is a number built from the bytes
Sha1(data) ==
    IF data = <<>> THEN 1
    ELSE Sha1(SubSeq(data, 1, Len(data) - 1)) * 256 + Byte(data[Len(data)])

RECURSIVE B64Encode(_)
\* base64 of the client: three bytes make four symbols 0..63; a last group
\* of one or two bytes is padded with '=' (written 64)
B64Encode(data) ==
    LET n == Len(data)
        b(i) == Byte(data[i])
    IN  IF n = 0 THEN <<>>
        ELSE IF n = 1
        THEN <<b(1) \div 4, (b(1) % 4) * 16, 64, 64>>
        ELSE IF n = 2
        THEN <<b(1) \div 4, (b(1) % 4) * 16 + b(2) \div 16,
               (b(2) % 16) * 4, 64>>
        ELSE <<b(1) \div 4, (b(1) % 4) * 16 + b(2) \div 16,
               (b(2) % 16) * 4 + b(3) \div 64, b(3) % 64>>
             \o B64Encode(SubSeq(data, 4, n))

RECURSIVE B64Decode(_)
\* Line 73, b64decode(b64data): groups of four symbols give three bytes, a
\* padded group one or two; a length that is no multiple of four raises
\* TypeError (ok is FALSE)
B64Decode(b64data) ==
    LET n == Len(b64data)
        s(i) == b64data[i]
    IN  IF n = 0 THEN [ok |-> TRUE, data |-> <<>>]
        ELSE IF n < 4 THEN [ok |-> FALSE, data |-> <<>>]
        ELSE LET group ==
                     IF s(3) = 64
                     THEN <<Char(s(1) * 4 + s(2) \div 16)>>
                     ELSE IF s(4) = 64
                     THEN <<Char(s(1) * 4 + s(2) \div 16),
                            Char((s(2) % 16) * 16 + s(3) \div 4)>>
                     ELSE <<Char(s(1) * 4 + s(2) \div 16),
                            Char((s(2) % 16) * 16 + s(3) \div 4),
                            Char((s(3) % 4) * 64 + s(4))>>
                 rest == B64Decode(SubSeq(b64data, 5, n))
             IN  [ok |-> rest.ok, data |-> group \o rest.data]

\* The requests to file_create: the digest of some content in the URL, and
\* the base64 of some content, or 'YQ', which lacks its padding
FileRequests ==
    [sha1sum : {Sha1(data) : data \in Uploads},
     b64data : {B64Encode(data) : data \in Uploads} \cup {<<24, 16>>}]

\* File.fetch_by(sha1=sha1sum), File.fetch_by_sha1(sha1sum): the id of the
\* first File row with the digest, NoId when there is none
FetchBySha1(table, sha1sum) ==
    LET found == {i \in DOMAIN table : table[i].sha1 = sha1sum}
    IN  IF found = {} THEN NoId
        ELSE CHOOSE i \in found : \A j \in found : i <= j

\* File(base_path, data, sha1): lines 154-168, the row and the blob written
\* under the path of the digest
NewFile(data, sha1sum) ==
    [sha1 |-> sha1sum, size |-> Len(data), lines |-> CountLines(data),
     data |-> data]

\* The table after the file was fetched or created, and the id of the file
Stored(table, data, sha1sum) ==
    IF FetchBySha1(table, sha1sum) = NoId
    THEN [table |-> Append(table, NewFile(data, sha1sum)),
          id |-> Len(table) + 1]
    ELSE [table |-> table, id |-> FetchBySha1(table, sha1sum)]

\* File.fetch_or_create(data, base_path, sha1sum), lines 135-145; the caller
\* commits
FetchOrCreateFile(data, sha1sum) ==
    /\ LET digest == IF sha1sum = NoSha1 THEN Sha1(data) ELSE sha1sum
           stored == Stored(file_table, data, digest)
       IN  /\ file_table' = stored.table
           /\ response' = [view |-> "fetch_or_create", status |-> "returned",
                           file_id |-> stored.id,
                           request |-> [data |-> data, sha1sum |-> sha1sum]]
    /\ UNCHANGED <<user_files, groupvars>>
    /\ UNCHANGED <<rulevars, workervars>>

\* Variant: the digest of the URL is not compared with the content
DigestMatches_Always(sha1sum, data) == TRUE

\* Lines 75-78: the digest of the URL is the digest of the content
DigestMatches(sha1sum, data) == sha1sum = Sha1(data)

\* file_create, lines 68-95
FileCreate(request) ==
    /\ LET decoded == B64Decode(request.b64data)
           outcome ==
               IF ~decoded.ok THEN "error"
               ELSE IF ~DigestMatches(request.sha1sum, decoded.data)
               THEN "bad_request"
               ELSE "ok"
           stored == Stored(file_table, decoded.data, request.sha1sum)
       IN  IF outcome = "ok"
           THEN /\ file_table' = stored.table
                /\ user_files' = user_files \cup {stored.id}
                /\ response' = [view |-> "file_create", status |-> "ok",
                                file_id |-> stored.id, request |-> request]
           ELSE /\ response' = [view |-> "file_create", status |-> outcome,
                                file_id |-> NoId, request |-> request]
                /\ UNCHANGED <<file_table, user_files>>
    /\ UNCHANGED <<rulevars, workervars, groupvars>>

(***************************************************************************)
(* Groups: User.make_submission and User.group_with. A user without a     *)
(* UserToGroup row for the project has group NoId.                        *)
(***************************************************************************)
Users == 1..NumUsers

\* UserToGroup.user_count: the rows with the group id of the row
UserCount(groups, g) == Cardinality({u \in Users : groups[u] = g})

\* User.make_submission, lines 912-918: a user without a group gets a group
\* of their own; the submission belongs to the group of the user
MakeSubmission(user) ==
    /\ Len(submission_group) < MaxSubmissions
    /\ IF user_group[user] = NoId
       THEN /\ last_group' = last_group + 1
            /\ user_group' = [user_group EXCEPT ![user] = last_group + 1]
       ELSE UNCHANGED <<last_group, user_group>>
    /\ submission_group' = Append(submission_group, user_group'[user])
    /\ response' = [view |-> "make_submission", status |-> "made",
                    request |-> [from_user |-> user, to_user |-> user]]
    /\ UNCHANGED <<group_max, filevars>>
    /\ UNCHANGED <<rulevars, workervars>>

\* Lines 866-899: how the call ends. The row built for to_user when neither
\* user has one is pending, its group_id is None when user_count builds its
\* query, so it counts no row; the else branch of line 899 reads the local
\* assoc, which only the loop of the other branch assigns; line 884 reads
\* user_count of from_assoc, which is None when only to_user has a group
GroupWithOutcome(from_user, to_user) ==
    LET from_assoc == user_group[from_user]
        to_assoc == user_group[to_user]
    IN  IF from_user = to_user \/ (from_assoc = to_assoc /\ from_assoc # NoId)
        THEN "already"
        ELSE IF from_assoc = NoId /\ to_assoc = NoId
        THEN IF group_max < 0 + 1 THEN "too_many" ELSE "UnboundLocalError"
        ELSE IF to_assoc = NoId
        THEN IF group_max < UserCount(user_group, from_assoc) + 1
             THEN "too_many"
             ELSE "UnboundLocalError"
        ELSE IF from_assoc = NoId
        THEN "AttributeError"
        ELSE IF group_max < UserCount(user_group, to_assoc)
                                + UserCount(user_group, from_assoc)
        THEN "too_many"
        ELSE "joined"

\* Lines 884-897: the group that is kept when both users have one. When the
\* group of to_user is the larger one the two rows are swapped, and the group
\* of the row then called from_assoc is moved into the other and deleted
Kept(from_user, to_user) ==
    IF UserCount(user_group, user_group[to_user])
           > UserCount(user_group, user_group[from_user])
    THEN user_group[from_user]
    ELSE user_group[to_user]

\* Lines 893-897: the rows of the old group are moved to the group kept
Moved(groups, old, kept) ==
    [x \in DOMAIN groups |-> IF groups[x] = old THEN kept ELSE groups[x]]

\* User.group_with(to_user, project), lines 864-905; an exception leaves the
\* transaction to be aborted
GroupWith(from_user, to_user) ==
    /\ LET outcome == GroupWithOutcome(from_user, to_user)
           kept == Kept(from_user, to_user)
           old == IF kept = user_group[to_user] THEN user_group[from_user]
                  ELSE user_group[to_user]
       IN  /\ response' = [view |-> "group_with", status |-> outcome,
                           request |-> [from_user |-> from_user,
                                        to_user |-> to_user]]
           /\ IF outcome = "joined"
              THEN /\ user_group' = Moved(user_group, old, kept)
                   /\ submission_group' = Moved(submission_group, old, kept)
              ELSE UNCHANGED <<user_group, submission_group>>
    /\ UNCHANGED <<group_max, last_group, filevars>>
    /\ UNCHANGED <<rulevars, workervars>>

\* A project whose users have made no submission; its group_max
InitGroups ==
    /\ InitProjectIdle({})
    /\ file_verifiers = EmptyDict
    /\ testable_fvs = [t \in 1..NumTestables |-> {}]
    /\ files = EmptyDict
    /\ InitRequests
    /\ group_max \in 1..MaxGroupMax

\* A project without rules, whose administrator sends requests
InitCreate ==
    /\ InitVerifyIdle({})
    /\ file_verifiers = EmptyDict
    /\ testable_fvs = [t \in 1..NumTestables |-> {}]
    /\ files = EmptyDict

\* The dispatcher runs with no submission to verify
InitNoSubmission ==
    /\ file_verifiers = EmptyDict
    /\ testable_fvs = [t \in DOMAIN is_locked |-> {}]
    /\ files = EmptyDict
    /\ verification_results = NoReport
    /\ retval = <<>>
    /\ verify_calls = EmptyDict
    /\ InitNoRequests

\* A testable of two test cases: test case 1 compares its output with 'a' for
\* one point; test case 2 is worth two points and either compares its output
\* with the empty output or stores its output as text
ScoreCases == 1..2
ScoreTestCases ==
    {[c \in ScoreCases |->
         [testable |-> 1,
          output_type |-> IF c = 1 THEN "diff" ELSE output_type,
          points |-> c,
          expected |-> IF c = 1 THEN "a" ELSE ""]] :
       output_type \in {"diff", "text"}}

\* The results directories of any run: each test case ran or not, with any
\* entry; the output file of a test case that ran exists or not, with any
\* content; the file testable exists or not
ScoreArtifacts ==
    UNION {{Artifact(summary, outputs, tf) :
               outputs \in Dicts(DOMAIN summary, Outputs),
               tf \in {<<>>} \cup {<<data>> : data \in TestableData}} :
           summary \in Dicts(ScoreCases, Entries)}

\* A submission with no results yet to one unlocked testable; one machine, a
\* network without timeouts
InitScore ==
    /\ InitPool(1)
    /\ is_locked = [t \in 1..1 |-> FALSE]
    /\ status = "notready"
    /\ test_cases \in ScoreTestCases
    /\ tc_results = {}
    /\ testable_results = {}
    /\ InitCall
    /\ jobs_left = MaxJobs
    /\ timeouts_left = 0
    /\ InitNoSubmission

\* As InitScore, with the testable waiting for its expected outputs to be
\* regenerated
InitUpdate ==
    /\ InitPool(1)
    /\ is_locked = [t \in 1..1 |-> TRUE]
    /\ status = "locked"
    /\ test_cases \in ScoreTestCases
    /\ tc_results = {}
    /\ testable_results = {}
    /\ InitCall
    /\ jobs_left = MaxJobs
    /\ timeouts_left = 0
    /\ InitNoSubmission

\* Several calls of do_work on a pool of up to NumMachines machines, for a
\* project of one testable, with a network that times out at most
\* MaxTimeouts times
Init ==
    /\ \E n \in 0..NumMachines : InitPool(n)
    /\ InitDb(1)
    /\ InitCall
    /\ InitNoSubmission
    /\ jobs_left = MaxJobs
    /\ timeouts_left = MaxTimeouts

\* One call of do_work on a pool of up to RetryMachines machines, for a
\* project of one testable that may have been run before, with a network that
\* may time out at every attempt
InitRetry ==
    /\ \E n \in 0..RetryMachines : InitPool(n)
    /\ InitDbRerun(1)
    /\ InitCall
    /\ InitNoSubmission
    /\ jobs_left = 1
    /\ timeouts_left = MaxAttempts + 1

\* Several calls of do_work on a pool of at most one machine, for a project of
\* NumTestables testables, with a network that times out at most MaxTimeouts
\* times
InitJobs ==
    /\ \E n \in 0..1 : InitPool(n)
    /\ InitDb(NumTestables)
    /\ InitCall
    /\ InitNoSubmission
    /\ jobs_left = MaxJobs
    /\ timeouts_left = MaxTimeouts

\* The locals of do_work are gone when the call ends
EndCall ==
    /\ priority' = 0
    /\ machine' = NoMachine
    /\ popped' = NoPriority
    /\ elapsed' = NoLatency
    /\ ops' = <<>>
    /\ last_call' = NoCall
    /\ fetched' = NoFetch
    /\ pc' = "idle"

\* Lines 97-113: the call starts; the job is verified
DoWork(j) ==
    /\ pc = "idle"
    /\ jobs_left > 0
    /\ jobs_left' = jobs_left - 1
    /\ job' = j
    /\ pool_before' = machines
    /\ db_before' = Db
    /\ attempt' = 0
    /\ log_type' = "none"
    /\ claims' = 0
    /\ IF VerifyJob(j, status, is_locked) # "none"
       THEN /\ exc' = "HandledError"
            /\ result' = "rejected"
            /\ pc' = "idle"
            /\ WrapperAbort
       ELSE /\ exc' = "none"
            /\ result' = "none"
            /\ pc' = "loop"
            /\ UNCHANGED <<dbvars, committed>>
    /\ UNCHANGED <<machines, priority, machine, attemptvars, timeouts_left>>
    /\ UNCHANGED verifyvars

\* Lines 114-123: the loop test passes and the best machine is claimed
Claim ==
    /\ pc = "loop"
    /\ attempt < MaxAttempts
    /\ machines # <<>>
    /\ LET p == HeapPop(machines)
       IN  /\ priority' = p[1][1]
           /\ popped' = p[1][1]
           /\ machine' = p[1][2]
           /\ machines' = p[2]
    /\ claims' = claims + 1
    /\ log_type' = "unhandled"
    /\ elapsed' = NoLatency
    /\ ops' = <<>>
    /\ last_call' = NoCall
    /\ fetched' = NoFetch
    /\ pc' = "kill"
    /\ UNCHANGED <<callvars, attempt, exc, result, dbvars, committed,
                   timeouts_left>>
    /\ UNCHANGED verifyvars

\* Line 116 on an empty pool: heappop raises IndexError outside the try
ClaimEmpty ==
    /\ pc = "loop"
    /\ attempt < MaxAttempts
    /\ machines = <<>>
    /\ exc' = "IndexError"
    /\ result' = "failed"
    /\ EndCall
    /\ WrapperAbort
    /\ UNCHANGED <<machines, callvars, attempt, log_type, claims,
                   timeouts_left>>
    /\ UNCHANGED verifyvars

\* Lines 160-161: the loop ends after 16 timeouts
Exhausted ==
    /\ pc = "loop"
    /\ ~(attempt < MaxAttempts)
    /\ exc' = "Exception"
    /\ result' = "exhausted"
    /\ EndCall
    /\ WrapperAbort
    /\ UNCHANGED <<machines, callvars, attempt, log_type, claims,
                   timeouts_left>>
    /\ UNCHANGED verifyvars

\* Line 126: kill_processes on the claimed machine
Reclaim(obs, lat) ==
    /\ pc = "kill"
    /\ Allowed(obs)
    /\ Spend(obs)
    /\ ops' = Append(ops, "kill")
    /\ last_call' = obs
    /\ UNCHANGED fetched
    /\ LET e == KillProcesses(obs)
       IN  IF e = "none"
           THEN /\ elapsed' = lat
                /\ priority' = lat
                /\ popped' = NoPriority
                /\ pc' = "push"
                /\ UNCHANGED exc
           ELSE /\ exc' = e
                /\ pc' = "except"
                /\ UNCHANGED <<elapsed, priority, popped>>
    /\ UNCHANGED <<machines, callvars, attempt, machine, log_type, result,
                   dbvars, committed, claims>>
    /\ UNCHANGED verifyvars

\* Variant: an optional rule whose file is absent stops the staging too
Satisfied_Strict(t) == \A x \in testable_fvs[t] : x \in DOMAIN files

\* push_files, lines 242-251: every rule of the testable has its file in the
\* submission or is optional
Satisfied(t) ==
    \A x \in testable_fvs[t] : x \in DOMAIN files \/ file_verifiers[x].optional

\* Line 128: push_files stages the job directory and rsyncs it to the machine;
\* it raises HandledError before any remote call when a required file of the
\* testable is not in the submission
PushFiles(satisfied, obs) ==
    /\ pc = "push"
    /\ IF ~satisfied
       THEN /\ exc' = "HandledError"
            /\ pc' = "except"
            /\ UNCHANGED <<ops, last_call, fetched, timeouts_left>>
       ELSE /\ Allowed(obs)
            /\ Spend(obs)
            /\ ops' = Append(ops, "push")
            /\ last_call' = obs
            /\ UNCHANGED fetched
            /\ exc' = Rsync(obs)
            /\ pc' = IF Rsync(obs) = "none" THEN "run" ELSE "except"
    /\ UNCHANGED <<machines, callvars, locals, result, dbvars, committed,
                   claims, popped, elapsed>>
    /\ UNCHANGED verifyvars

\* Line 131: self.ssh(machine, 'python worker.py')
RunWorker(obs) ==
    /\ pc = "run"
    /\ Allowed(obs)
    /\ Spend(obs)
    /\ ops' = Append(ops, "run")
    /\ last_call' = obs
    /\ UNCHANGED fetched
    /\ exc' = Ssh(obs)
    /\ pc' = IF Ssh(obs) = "none" THEN "fetch" ELSE "except"
    /\ UNCHANGED <<machines, callvars, locals, result, dbvars, committed,
                   claims, popped, elapsed>>
    /\ UNCHANGED verifyvars

\* set_expected_files: every test case of the testable needs an entry in the
\* summary, and every diff test case an output file, which becomes its
\* expected output; the test cases that lack one
Failing(t, artifacts) ==
    {c \in TestCasesOf(t) :
        \/ c \notin DOMAIN artifacts.summary
        \/ /\ test_cases[c].output_type = "diff"
           /\ c \notin DOMAIN artifacts.outputs}

\* The exception of the first test case that fails ("none": no test case
\* fails)
SetExpectedFilesError(t, artifacts) ==
    LET bad == Failing(t, artifacts)
        first == CHOOSE c \in bad : \A x \in bad : c <= x
    IN  IF bad = {} THEN "none"
        ELSE IF first \notin DOMAIN artifacts.summary THEN "Exception"
        ELSE "IOError"

\* A loop that takes the output of every test case as its expected output
ExpectedFiles_AllTypes(t, artifacts) ==
    [c \in TestCases |->
        IF /\ test_cases[c].testable = t
           /\ \A x \in Failing(t, artifacts) : c < x
        THEN [test_cases[c] EXCEPT
                 !.expected = ActualOutput(artifacts.outputs, c)]
        ELSE test_cases[c]]

\* Lines 20-27: the test cases as the loop leaves them in the session; the
\* loop stops at the first test case that fails
ExpectedFiles(t, artifacts) ==
    [c \in TestCases |->
        IF /\ test_cases[c].testable = t
           /\ test_cases[c].output_type = "diff"
           /\ \A x \in Failing(t, artifacts) : c < x
        THEN [test_cases[c] EXCEPT !.expected = artifacts.outputs[c]]
        ELSE test_cases[c]]

\* A project that leaves 'locked' with the first testable that is unlocked
StatusAfterUnlock_First(t) == "notready"

\* Then the testable is unlocked, and the project leaves 'locked' when no
\* testable of it is locked any more
UnlockedBy(t) == [is_locked EXCEPT ![t] = FALSE]
StatusAfterUnlock(t) ==
    IF \E x \in Testables : UnlockedBy(t)[x] THEN status ELSE "notready"

\* Lines 133-134: fetch_results pulls the results directory and ingests it
FetchResults(obs, artifacts) ==
    /\ pc = "fetch"
    /\ Allowed(obs)
    /\ Spend(obs)
    /\ ops' = Append(ops, "fetch")
    /\ last_call' = obs
    /\ LET t == job.testable_id
       IN  IF Rsync(obs) # "none"
           THEN /\ exc' = Rsync(obs)
                /\ pc' = "except"
                /\ fetched' = NoFetch
                /\ UNCHANGED dbvars
           ELSE IF job.update_project
           THEN IF SetExpectedFilesError(t, artifacts) # "none"
                THEN /\ exc' = SetExpectedFilesError(t, artifacts)
                     /\ pc' = "except"
                     /\ fetched' = Fetched(artifacts, 0)
                     /\ test_cases' = ExpectedFiles(t, artifacts)
                     /\ UNCHANGED <<status, is_locked, tc_results,
                                    testable_results>>
                ELSE /\ test_cases' = ExpectedFiles(t, artifacts)
                     /\ fetched' = Fetched(artifacts, 0)
                     /\ is_locked' = UnlockedBy(t)
                     /\ status' = StatusAfterUnlock(t)
                     /\ pc' = "return"
                     /\ UNCHANGED <<exc, tc_results, testable_results>>
           ELSE LET st == IngestAll(Ingested(tc_results, 0), TestCasesOf(t),
                                    artifacts)
                IN  /\ tc_results' = st.rows
                    /\ fetched' = Fetched(artifacts, st.points)
                    /\ IF artifacts.testable # <<>>
                       THEN /\ testable_results' =
                                   FetchOrCreate(testable_results,
                                       artifacts.testable[1].make,
                                       [points |-> st.points,
                                        status |-> artifacts.testable[1].status,
                                        testable |-> t])
                            /\ pc' = "return"
                            /\ UNCHANGED exc
                       ELSE /\ exc' = "IOError"
                            /\ pc' = "except"
                            /\ UNCHANGED testable_results
                    /\ UNCHANGED <<status, is_locked, test_cases>>
    /\ committed' = Persisted(committed, Db')
    /\ UNCHANGED <<machines, callvars, locals, result, claims, popped, elapsed>>
    /\ UNCHANGED verifyvars

\* Lines 135-136 and the finally clause: success, the machine is pushed back;
\* then the transaction is committed, or aborted when its flush fails
Return ==
    /\ pc = "return"
    /\ log_type' = "success"
    /\ machines' = HeapPush(machines, <<Penalized("none", priority), machine>>)
    /\ result' = "success"
    /\ EndCall
    /\ IF CanCommit(Db)
       THEN WrapperCommit /\ UNCHANGED exc
       ELSE WrapperAbort /\ exc' = "IntegrityError"
    /\ UNCHANGED <<callvars, attempt, claims, timeouts_left>>
    /\ UNCHANGED verifyvars

\* A timeout handler that forgets to count the attempt
ExceptTimeout_NoCount ==
    /\ pc = "except"
    /\ Retried(exc)
    /\ log_type' = "timeout"
    /\ priority' = Penalized(exc, priority)
    /\ machines' = HeapPush(machines, <<priority', machine>>)
    /\ exc' = "none"
    /\ popped' = NoPriority
    /\ elapsed' = NoLatency
    /\ ops' = <<>>
    /\ last_call' = NoCall
    /\ fetched' = NoFetch
    /\ pc' = "loop"
    /\ UNCHANGED <<callvars, attempt, machine, result, dbvars, committed,
                   claims, timeouts_left>>
    /\ UNCHANGED verifyvars

\* Lines 137-140 and the finally clause: a connect timeout is penalized and
\* the loop goes on
ExceptTimeout ==
    /\ pc = "except"
    /\ Retried(exc)
    /\ attempt' = attempt + 1
    /\ log_type' = "timeout"
    /\ priority' = Penalized(exc, priority)
    /\ machines' = HeapPush(machines, <<priority', machine>>)
    /\ exc' = "none"
    /\ popped' = NoPriority
    /\ elapsed' = NoLatency
    /\ ops' = <<>>
    /\ last_call' = NoCall
    /\ fetched' = NoFetch
    /\ pc' = "loop"
    /\ UNCHANGED <<callvars, machine, result, dbvars, committed, claims,
                   timeouts_left>>
    /\ UNCHANGED verifyvars

\* Lines 141-150 and the finally clause: any other exception is penalized,
\* slept on and raised again
ExceptException ==
    /\ pc = "except"
    /\ ~Retried(exc)
    /\ log_type' = "exception"
    /\ machines' = HeapPush(machines, <<Penalized(exc, priority), machine>>)
    /\ result' = "failed"
    /\ EndCall
    /\ WrapperAbort
    /\ UNCHANGED <<callvars, attempt, exc, claims, timeouts_left>>
    /\ UNCHANGED verifyvars

Next ==
    \/ \E j \in Jobs : DoWork(j)
    \/ Claim
    \/ ClaimEmpty
    \/ \E obs \in SshObservations, lat \in Latencies : Reclaim(obs, lat)
    \/ \E satisfied \in BOOLEAN, obs \in RsyncObservations :
          PushFiles(satisfied, obs)
    \/ \E obs \in SshObservations : RunWorker(obs)
    \/ \E obs \in RsyncObservations, artifacts \in PlainArtifacts :
          FetchResults(obs, artifacts)
    \/ Return
    \/ ExceptTimeout
    \/ ExceptException

\* With fewer than 16 timeouts in a behaviour the loop never runs out
Spec == Init /\ [][Next]_vars

NextRetry == Next \/ Exhausted
SpecRetry == InitRetry /\ [][NextRetry]_vars

SpecJobs == InitJobs /\ [][Next]_vars

\* Submissions are verified
NextVerify == VerifySubmission

\* Rules are created for the project
NextCreate == \E request \in FileVerifierRequests : FileVerifierCreate(request)
SpecCreate == InitCreate /\ [][NextCreate]_vars

\* Contents are stored by the worker and uploaded by the user, in any order
NextFiles ==
    \/ \E data \in Uploads : FetchOrCreateFile(data, NoSha1)
    \/ \E request \in FileRequests : FileCreate(request)
SpecFiles == InitCreate /\ [][NextFiles]_vars

\* The users of a project submit and join groups
NextGroups ==
    \/ \E user \in Users : MakeSubmission(user)
    \/ \E from_user, to_user \in Users : GroupWith(from_user, to_user)
SpecGroups == InitGroups /\ [][NextGroups]_vars
SpecVerify == InitVerify /\ [][NextVerify]_vars

\* A submission is verified, graded and verified again
NextReverify ==
    \/ VerifySubmission
    \/ \E j \in Jobs : DoWork(j)
    \/ Claim
    \/ \E obs \in SshObservations : Reclaim(obs, MinLatency)
    \/ \E obs \in RsyncObservations : PushFiles(Satisfied(job.testable_id), obs)
    \/ \E obs \in SshObservations : RunWorker(obs)
    \/ \E obs \in RsyncObservations, artifacts \in PlainArtifacts :
          FetchResults(obs, artifacts)
    \/ Return
    \/ ExceptException
SpecReverify == InitReverify /\ [][NextReverify]_vars

\* A submission is graded again and again, the worker leaving any results
NextScore ==
    \/ \E j \in Jobs : DoWork(j)
    \/ Claim
    \/ \E obs \in SshObservations : Reclaim(obs, MinLatency)
    \/ \E obs \in RsyncObservations : PushFiles(Satisfied(job.testable_id), obs)
    \/ \E obs \in SshObservations : RunWorker(obs)
    \/ \E obs \in RsyncObservations, artifacts \in ScoreArtifacts :
          FetchResults(obs, artifacts)
    \/ Return
    \/ ExceptException
SpecScore == InitScore /\ [][NextScore]_vars
SpecUpdate == InitUpdate /\ [][NextScore]_vars

\* Every remote call returns and the call goes on: a step of a running call
\* is eventually taken.
Running == NextRetry /\ pc # "idle"
FairSpecRetry == SpecRetry /\ WF_vars(Running)

TypeOK ==
    /\ pc \in {"idle", "loop", "kill", "push", "run", "fetch", "return", "except"}
    /\ attempt \in 0..MaxAttempts
    /\ job \in Jobs \cup {NoJob}
    /\ result \in {"none", "success", "rejected", "failed", "exhausted"}

(***************************************************************************)
(* Properties of the dispatcher.                                           *)
(***************************************************************************)
InPool(heap, m) == \E i \in 1..Len(heap) : heap[i][2] = m
Occurrences(heap, m) == Cardinality({i \in 1..Len(heap) : heap[i][2] = m})

\* The priority the penalty of the attempt is added to: the measured reclaim
\* time, or the priority the machine was claimed with when none was measured
Base == IF elapsed # NoLatency THEN elapsed ELSE popped

C2_TimeoutsExhaust ==
    /\ [][pc = "except" /\ exc = "SSHConnectTimeout" =>
            /\ pc' = "loop"
            /\ Occurrences(machines', machine) = 1
            /\ PriorityOf(machines', machine) = Base + 10]_vars
    /\ [][pc = "loop" => (claims = 16 <=> result' = "exhausted")]_vars
    /\ [](claims <= 16)
    /\ [](result = "exhausted" => claims = 16 /\ exc = "Exception")

C2_Witness ==
    /\ result = "exhausted"
    /\ Len(machines) = 2
    /\ \A i \in 1..2 : machines[i][1] >= 5 + 10 * 8

\* C3: an attempt that fails with an error other than a connect timeout ends
\* the call: no further machine is claimed, the machine goes back with 5
\* added once to its priority, and the error is propagated.
C3_NoRetryOnError ==
    [][pc = "except" /\ exc # "SSHConnectTimeout" =>
            /\ pc' = "idle"
            /\ result' = "failed"
            /\ exc' = exc
            /\ claims' = claims
            /\ Len(machines') = Len(pool_before)
            /\ Occurrences(machines', machine) = 1
            /\ PriorityOf(machines', machine) = Base + 5]_vars

C3_Witness ==
    /\ pc = "idle"
    /\ result = "failed"
    /\ exc = "CalledProcessError"
    /\ attempt = 1
    /\ claims = 2

\* C4 as claimed: after an attempt on machine m failed with a connect timeout,
\* the next attempt of the same call is made on another machine.
C4_DifferentMachine ==
    [][pc = "loop" /\ attempt > 0 /\ pc' = "kill" => machine' # machine]_vars

\* Which call the attempt failed in
LastOp == ops[Len(ops)]

\* C5 as claimed: a connect timeout of the transport in any of the four
\* phases is retried: the attempt is counted and the loop goes on.
C5_TimeoutAnyPhase ==
    [][pc = "except" /\ last_call.timeout =>
            attempt' = attempt + 1 /\ pc' = "loop"]_vars

\* C5 as amended: a connect timeout of the transport in the reclaim or the
\* execute phase (the ssh calls) is retried: the attempt is counted, and while
\* fewer than 16 attempts timed out another machine is claimed; in the stage
\* or the collect phase (the rsync calls) it is a failure that is not retried.
C5_TimeoutSshPhases ==
    /\ [][pc = "except" /\ last_call.timeout =>
            IF LastOp \in {"kill", "run"}
            THEN attempt' = attempt + 1 /\ pc' = "loop" /\ result' = "none"
            ELSE attempt' = attempt /\ pc' = "idle" /\ result' = "failed"]_vars
    /\ [][pc = "loop" /\ attempt > 0 /\ attempt < 16 =>
            pc' = "kill" /\ claims' = claims + 1]_vars

C5_Witness ==
    /\ pc = "except"
    /\ last_call.timeout
    /\ LastOp = "run"
    /\ attempt = 15

\* C6: every call ends, in exactly one of success, rejection, failure and
\* exhausted retries, after at most 16 claims; a successful attempt ends it at
\* once and is not counted.
C6_Terminates ==
    /\ [](pc # "idle" => <>(pc = "idle"))
    /\ [](claims <= 16)
    /\ [](pc = "idle" /\ job # NoJob =>
            result \in {"success", "rejected", "failed", "exhausted"})
    /\ [](pc # "idle" => result = "none")
    /\ [][pc = "return" =>
            pc' = "idle" /\ result' = "success" /\ attempt' = attempt]_vars

C6_Witness ==
    /\ pc = "idle"
    /\ result = "success"
    /\ claims = 16
    /\ attempt = 15

\* C7: the machine just claimed has a priority less than or equal to that of
\* every machine left in the pool.
C7_ClaimsMinimum ==
    pc = "kill" => \A i \in 1..Len(machines) : popped <= machines[i][1]

C7_Witness ==
    /\ pc = "kill"
    /\ jobs_left = 0
    /\ Len(machines) >= 1
    /\ popped # 5
    /\ \E i \in 1..Len(machines) : machines[i][1] > popped

\* C8: after a successful attempt the machine is back in the pool with the
\* time measured for the reclaim step of that attempt as its priority.
C8_PriorityIsLatency ==
    [][pc = "return" =>
            /\ result' = "success"
            /\ elapsed \in Latencies
            /\ Occurrences(machines', machine) = 1
            /\ PriorityOf(machines', machine) = elapsed]_vars

C8_Witness ==
    /\ pc = "idle"
    /\ result = "success"
    /\ attempt = 1
    /\ Len(machines) = 1
    /\ pool_before[1][1] > machines[1][1]

\* C9: the reclaim step succeeds only when the kill command ends with status
\* 255 and the 'closed by remote host' message; a connect timeout is the one
\* outcome that is retried, and every other outcome, status 0 included, fails
\* the attempt with an error that is not retried.
C9_ReclaimOutcome ==
    ops = <<"kill">> =>
        /\ elapsed # NoLatency <=>
              (last_call.rc = 255 /\ last_call.stderr = "closed")
        /\ elapsed = NoLatency =>
              /\ pc = "except"
              /\ exc = IF last_call.timeout THEN "SSHConnectTimeout"
                       ELSE "Exception"

C9_Witness ==
    /\ ops = <<"kill">>
    /\ pc = "except"
    /\ last_call.rc = 0
    /\ exc = "Exception"

\* The job is one of the input or eligibility errors, in the persisted state
\* the call started in
JobInvalid ==
    \/ job.submission_id = NoId
    \/ job.testable_id = NoId
    \/ /\ job.update_project
       /\ \/ db_before.status # "locked"
          \/ ~db_before.is_locked[job.testable_id]

\* C10: a job with an unknown submission or testable id, or an update job
\* whose project or testable is not locked, is rejected with a handled error
\* before any machine is claimed: no remote call is made, and the pool and
\* the persisted state stay as they were.
C10_RejectedBeforeClaim ==
    job # NoJob /\ JobInvalid =>
        /\ pc = "idle"
        /\ result = "rejected"
        /\ exc = "HandledError"
        /\ claims = 0
        /\ ops = <<>>
        /\ machines = pool_before
        /\ Db = db_before

C10_Witness ==
    /\ result = "rejected"
    /\ job.update_project
    /\ job.testable_id # NoId
    /\ status = "locked"
    /\ ~is_locked[job.testable_id]
    /\ jobs_left = 0

\* C11: a call that ends in a failure or in exhausted retries leaves the
\* persisted TestCaseResults and TestableResults of the submission as they
\* were before the call, also when it failed part-way through the ingestion
\* of the results.
C11_FailureKeepsResults ==
    /\ pc = "except" => committed = db_before
    /\ pc = "idle" /\ result \in {"failed", "exhausted"} =>
          /\ committed.tc_results = db_before.tc_results
          /\ committed.testable_results = db_before.testable_results
          /\ tc_results = db_before.tc_results
          /\ testable_results = db_before.testable_results

C11_Witness ==
    /\ pc = "except"
    /\ exc = "IOError"
    /\ db_before.tc_results # {}
    /\ tc_results = {}

\* An attempt is in flight: a machine is claimed and not yet pushed back
InFlight == pc \in {"kill", "push", "run", "fetch", "return", "except"}

\* C12: at most one machine is claimed at any time, and from its removal from
\* the pool until its re-insertion the claimed machine is not in the pool, so
\* no second job and no second attempt can claim it.
C12_OneClaimed ==
    /\ InFlight =>
          /\ machine # NoMachine
          /\ ~InPool(machines, machine)
          /\ Len(machines) = Len(pool_before) - 1
    /\ ~InFlight => Len(machines) = Len(pool_before)
    /\ \A i, k \in 1..Len(machines) : machines[i][2] = machines[k][2] => i = k
    /\ [][claims' # claims /\ claims' # 0 =>
            ~InFlight /\ InFlight' /\ ~InPool(machines', machine')]_vars

C12_Witness ==
    /\ pc = "run"
    /\ attempt = 1
    /\ jobs_left = 0
    /\ Len(machines) = 1

\* C13: in every attempt the phases run in the order reclaim, stage, execute,
\* collect on the one claimed machine: files are pushed only after the reclaim
\* of the attempt succeeded, the remote runner is started only after the push
\* succeeded, and results are pulled and ingested only after the runner
\* returned successfully.
C13_PhaseOrder ==
    /\ pc = "kill" => ops = <<>>
    /\ pc = "push" =>
          /\ ops = <<"kill">>
          /\ last_call.rc = 255 /\ last_call.stderr = "closed"
          /\ elapsed # NoLatency
    /\ pc = "run" => ops = <<"kill", "push">> /\ last_call.rc = 0
    /\ pc = "fetch" => ops = <<"kill", "push", "run">> /\ last_call.rc = 0
    /\ pc = "return" =>
          ops = <<"kill", "push", "run", "fetch">> /\ last_call.rc = 0
    /\ [][Db' # Db /\ pc' # "idle" =>
            /\ pc = "fetch"
            /\ ops' = <<"kill", "push", "run", "fetch">>
            /\ last_call'.rc = 0]_vars
    /\ [][InFlight /\ InFlight' => machine' = machine]_vars

C13_Witness ==
    /\ pc = "return"
    /\ attempt = 1
    /\ jobs_left = 0
    /\ tc_results # db_before.tc_results

(***************************************************************************)
(* Properties of the verification.                                         *)
(***************************************************************************)
\* A submission has been verified
Verified == verification_results # NoReport

\* The testable is in the list verify_submission returned
Returned(t) == \E i \in 1..Len(retval) : retval[i] = t

\* The filename is valid: a file was submitted under it and the rule of the
\* filename finds no error in it
ValidFile(x) ==
    /\ x \in DOMAIN files
    /\ Verify(file_verifiers[x], files[x]).errors = <<>>

\* The required filenames of the testable
Required(t) == {x \in testable_fvs[t] : ~file_verifiers[x].optional}

\* C14: verify_submission returns a testable as eligible if and only if the
\* testable has at least one rule and every one of its non-optional rule
\* filenames is valid; optional rules that are absent or have errors do not
\* block it.
C14_EligibleIff ==
    Verified =>
        /\ \A t \in DOMAIN testable_fvs :
              Returned(t) <=>
                  /\ testable_fvs[t] # {}
                  /\ \A x \in Required(t) : ValidFile(x)
        /\ \A i, k \in 1..Len(retval) : retval[i] = retval[k] => i = k

C14_Witness ==
    /\ Verified
    /\ \E t \in DOMAIN testable_fvs :
          /\ Returned(t)
          /\ Required(t) # {}
          /\ \E x \in testable_fvs[t] :
                file_verifiers[x].optional /\ x \in DOMAIN files /\ ~ValidFile(x)
    /\ \E t \in DOMAIN testable_fvs : testable_fvs[t] = {} /\ ~Returned(t)

\* The bounds of the rule the file violates; a maximum is configured when it
\* is not None
Violations(fv, file_) ==
    {b \in {"min_size", "max_size", "min_lines", "max_lines"} :
        \/ b = "min_size" /\ file_.size < fv.min_size
        \/ b = "max_size" /\ fv.max_size # NoLimit /\ file_.size > fv.max_size
        \/ b = "min_lines" /\ file_.lines < fv.min_lines
        \/ b = "max_lines" /\ fv.max_lines # NoLimit
                           /\ file_.lines > fv.max_lines}

\* The error of a violated bound
ErrorOf(fv, b) ==
    IF b = "min_size" THEN Error("must be >= {0} bytes", fv.min_size)
    ELSE IF b = "max_size" THEN Error("must be <= {0} bytes", fv.max_size)
    ELSE IF b = "min_lines" THEN Error("must have >= {0} lines", fv.min_lines)
    ELSE Error("must have <= {0} lines", fv.max_lines)

IsSizeError(e) == e.text \in {"must be >= {0} bytes", "must be <= {0} bytes"}
IsLineError(e) ==
    e.text \in {"must have >= {0} lines", "must have <= {0} lines"}

\* C15: for a file whose size and line count satisfy all configured bounds of
\* the rule, FileVerifier.verify returns an empty error list.
C15_SatisfiedNoErrors ==
    \A x \in DOMAIN verify_calls :
        Violations(file_verifiers[x], files[x]) = {} =>
            verify_calls[x].errors = <<>>

C15_Witness ==
    /\ MainFile \in DOMAIN verify_calls
    /\ verify_calls[MainFile].errors = <<>>
    /\ LET fv == file_verifiers[MainFile]
       IN  /\ fv.min_size = 1 /\ fv.max_size = 2
           /\ fv.min_lines = 1 /\ fv.max_lines = 2
    /\ files[MainFile].size = 2
    /\ files[MainFile].lines = 1

\* C16 as claimed: for a file that violates exactly one configured bound of
\* the rule, a maximum of 0 included, FileVerifier.verify returns exactly one
\* error, the error of the violated bound.
C16_OneBoundOneError ==
    \A x \in DOMAIN verify_calls :
        LET v == Violations(file_verifiers[x], files[x])
        IN  Cardinality(v) = 1 =>
                \A b \in v :
                    verify_calls[x].errors = <<ErrorOf(file_verifiers[x], b)>>

\* C17: the error list of FileVerifier.verify has at most one size error and
\* at most one line count error, and the size error comes first.
C17_OneErrorEach ==
    \A x \in DOMAIN verify_calls :
        LET errors == verify_calls[x].errors
        IN  /\ Cardinality({i \in DOMAIN errors : IsSizeError(errors[i])}) <= 1
            /\ Cardinality({i \in DOMAIN errors : IsLineError(errors[i])}) <= 1
            /\ \A i \in DOMAIN errors :
                  IsSizeError(errors[i]) \/ IsLineError(errors[i])
            /\ \A i, k \in DOMAIN errors :
                  IsSizeError(errors[i]) /\ IsLineError(errors[k]) => i < k

C17_Witness ==
    /\ MainFile \in DOMAIN verify_calls
    /\ Len(verify_calls[MainFile].errors) = 2
    /\ file_verifiers[MainFile].max_size > 0
    /\ files[MainFile].size < file_verifiers[MainFile].min_size
    /\ files[MainFile].size > file_verifiers[MainFile].max_size

\* C18: for an in-use rule whose filename is not in the submission, the
\* report holds the one-element error list ['file missing'] for the filename
\* when the rule is not optional, and no error entry for it when the rule is
\* optional.
C18_FileMissing ==
    Verified =>
        \A x \in InUse :
            x \notin DOMAIN files =>
                LET errors == verification_results.errors_by_filename
                IN  IF file_verifiers[x].optional
                    THEN x \notin DOMAIN errors
                    ELSE /\ x \in DOMAIN errors
                         /\ errors[x] = <<[text |-> "file missing", arg |-> -1]>>

C18_Witness ==
    /\ Verified
    /\ \E x \in InUse : x \notin DOMAIN files /\ file_verifiers[x].optional
    /\ \E x \in InUse : x \notin DOMAIN files /\ ~file_verifiers[x].optional

\* The required filenames of the testable that are not valid
MissingOf(t) == {x \in Required(t) : ~ValidFile(x)}

\* C19: in the report each blocked testable is recorded under exactly one
\* key, its set of missing required filenames, so two testables share a key if
\* and only if their missing sets are equal; no eligible testable is recorded.
C19_GroupedByMissingSet ==
    Verified =>
        LET m == verification_results.missing_to_testable_ids
        IN  /\ \A t \in DOMAIN testable_fvs :
                  MissingOf(t) # {} =>
                      /\ MissingOf(t) \in DOMAIN m
                      /\ \A k \in DOMAIN m : t \in m[k] <=> k = MissingOf(t)
            /\ \A t \in DOMAIN testable_fvs :
                  MissingOf(t) = {} => \A k \in DOMAIN m : t \notin m[k]
            /\ \A t1, t2 \in DOMAIN testable_fvs :
                  MissingOf(t1) # {} /\ MissingOf(t2) # {} =>
                      ((\E k \in DOMAIN m : t1 \in m[k] /\ t2 \in m[k])
                          <=> MissingOf(t1) = MissingOf(t2))
            /\ \A k \in DOMAIN m : m[k] # {} /\ m[k] \subseteq DOMAIN testable_fvs

C19_Witness ==
    /\ Verified
    /\ \E k \in DOMAIN verification_results.missing_to_testable_ids :
          /\ Cardinality(verification_results.missing_to_testable_ids[k]) = 2
          /\ Cardinality(k) = 2
          /\ \E x \in k : x \in DOMAIN files

\* The submitted filenames that are not the filename of a rule some testable
\* of the project references
Unrequested ==
    {x \in DOMAIN files : ~\E t \in DOMAIN testable_fvs : x \in testable_fvs[t]}

\* C20: the extra filenames recorded by verify_submission are exactly the
\* submitted filenames that are not the filename of a rule referenced by a
\* testable of the project; a file matching a rule no testable references is
\* extra, a filename consumed by a rule is not.
C20_ExtraFilenames ==
    Verified =>
        LET extra == verification_results.extra_filenames
        IN  /\ Len(extra) <= 1
            /\ Len(extra) = 1 => extra[1] = Unrequested
            /\ Len(extra) = 0 => Unrequested = {}

C20_Witness ==
    /\ Verified
    /\ Len(verification_results.extra_filenames) = 1
    /\ \E x \in DOMAIN file_verifiers :
          x \in verification_results.extra_filenames[1]
    /\ \E x \in DOMAIN files : x \notin verification_results.extra_filenames[1]
\* The report of the submission under the rules and files as they are: the
\* errors of the in-use rules, the warnings, the extra filenames and the
\* blocked testables by missing set
ExpectedErrors ==
    LET bad == {x \in InUse :
                   IF x \in DOMAIN files THEN ~ValidFile(x)
                   ELSE ~file_verifiers[x].optional}
    IN  [x \in bad |-> IF x \in DOMAIN files
                       THEN Verify(file_verifiers[x], files[x]).errors
                       ELSE <<[text |-> "file missing", arg |-> -1]>>]
ExpectedWarnings ==
    LET warned == {x \in InUse \cap DOMAIN files :
                      AnyWarnings(Verify(file_verifiers[x], files[x]).warnings)}
    IN  [x \in warned |-> Verify(file_verifiers[x], files[x]).warnings.list]
ExpectedMissing ==
    LET keys == {MissingOf(t) : t \in DOMAIN testable_fvs} \ {{}}
    IN  [k \in keys |-> {t \in DOMAIN testable_fvs : MissingOf(t) = k}]
ExpectedReport ==
    [errors_by_filename |-> ExpectedErrors,
     extra_filenames |-> IF Unrequested = {} THEN <<>> ELSE <<Unrequested>>,
     missing_to_testable_ids |-> ExpectedMissing,
     warnings_by_filename |-> ExpectedWarnings]

\* C21: after verify_submission returns, the submission has no TestCaseResult
\* and no TestableResult, whatever results it had before, and its stored
\* report is the newly built report, with nothing of the previous one.
C21_ResultsDiscarded ==
    [][pc = "idle" /\ jobs_left' = jobs_left =>
            /\ tc_results' = {}
            /\ testable_results' = {}
            /\ committed'.tc_results = {}
            /\ committed'.testable_results = {}
            /\ verification_results' = ExpectedReport]_vars

C21_Witness ==
    /\ pc = "idle"
    /\ result = "success"
    /\ exc = "none"
    /\ ~job.update_project
    /\ committed.testable_results = {}
    /\ committed.tc_results = {}
    /\ verification_results # NoReport
    /\ verification_results # StaleReport
    /\ verification_results.errors_by_filename # EmptyDict

\* The submission has been verified under the rules as they are
Reverified == verification_results \notin {NoReport, StaleReport}

\* C22: verifying a submission again, with its files and the rules unchanged
\* and whatever results came in since the last verification, yields the same
\* report and the same eligible testables, and leaves no results.
C22_ReverifyIdempotent ==
    [][Reverified /\ pc = "idle" /\ jobs_left' = jobs_left =>
            /\ verification_results' = verification_results
            /\ retval' = retval
            /\ verify_calls' = verify_calls
            /\ tc_results' = {}
            /\ testable_results' = {}
            /\ committed'.tc_results = {}
            /\ committed'.testable_results = {}]_vars

C22_Witness ==
    /\ Reverified
    /\ pc = "idle"
    /\ retval = <<1>>
    /\ committed.tc_results # {}
    /\ committed.testable_results # {}
    /\ verification_results.errors_by_filename = EmptyDict

\* The positions in the data where the non-overlapping matches of the pattern
\* start: a match starts at a position where the pattern matches and that no
\* earlier match covers
MatchStarts(pattern, data) ==
    CHOOSE S \in SUBSET DOMAIN data :
        \A p \in DOMAIN data :
            p \in S <=>
                /\ MatchesAt(pattern, data, p)
                /\ \A q \in S : q < p => q + Len(pattern) <= p

\* The line of a position: one more than the newlines before it
LineOf(data, p) == 1 + Cardinality({i \in 1..(p - 1) : data[i] = "\n"})

\* One warning for every match, in the order of the positions
WarningsOf(pattern, data) ==
    LET S == MatchStarts(pattern, data)
    IN  [k \in 1..Cardinality(S) |->
            LET p == CHOOSE x \in S : Cardinality({q \in S : q <= x}) = k
            IN  [lineno |-> LineOf(data, p),
                 token |-> SubSeq(data, p, p + Len(pattern) - 1)]]

\* C24: for a rule with a warning pattern, FileVerifier.verify returns one
\* warning for every non-overlapping match of the pattern in the file, each
\* with the 1-based number of the line the match is on, in the order of the
\* lines and of the positions in a line; a file without a match gives no
\* warning, and a rule without a pattern gives None.
C24_WarningPerMatch ==
    \A x \in DOMAIN verify_calls :
        LET pattern == file_verifiers[x].warning_regex
            warnings == verify_calls[x].warnings
        IN  IF pattern = <<>> THEN warnings.none
            ELSE /\ ~warnings.none
                 /\ warnings.list = WarningsOf(pattern, files[x].data)
                 /\ \A i, k \in DOMAIN warnings.list :
                       i < k => warnings.list[i].lineno <= warnings.list[k].lineno
                 /\ (\A p \in DOMAIN files[x].data :
                        ~MatchesAt(pattern, files[x].data, p))
                       => warnings.list = <<>>

C24_Witness ==
    /\ MainFile \in DOMAIN verify_calls
    /\ files[MainFile].data = <<"b", "\n", "a">>
    /\ verify_calls[MainFile].warnings.list =
           <<[lineno |-> 1, token |-> <<"b">>], [lineno |-> 2, token |-> <<"a">>]>>

\* The files of the size and the line count of the file
SameShape(file_) ==
    {g \in WarningFiles : g.size = file_.size /\ g.lines = file_.lines}

\* The submissions that differ from the submission at most in the text of
\* the files, not in their names, sizes and line counts
SameShapeSubmissions ==
    {other \in [DOMAIN files -> UNION {SameShape(files[x]) : x \in DOMAIN files}] :
        \A x \in DOMAIN files : other[x] \in SameShape(files[x])}

\* C23: warnings never influence eligibility: a submission whose files differ
\* only in the matches of the warning patterns (same names, sizes and line
\* counts) gets the same eligible testables and the same missing-set map,
\* and a present file with warnings and no error is valid.
C23_WarningsIgnored ==
    Verified =>
        /\ \A other \in SameShapeSubmissions :
              LET v == VerifySubmissionOf(other)
              IN  /\ v.retval = retval
                  /\ v.results.missing_to_testable_ids =
                         verification_results.missing_to_testable_ids
                  /\ v.results.errors_by_filename =
                         verification_results.errors_by_filename
        /\ \A t \in DOMAIN testable_fvs :
              (/\ testable_fvs[t] # {}
               /\ \A x \in testable_fvs[t] :
                     /\ x \in DOMAIN verify_calls
                     /\ verify_calls[x].errors = <<>>)
                  => Returned(t)

C23_Witness ==
    /\ Verified
    /\ retval = <<1>>
    /\ MainFile \in DOMAIN verify_calls
    /\ Len(verify_calls[MainFile].warnings.list) = 1
    /\ file_verifiers[MainFile].min_size = 3
    /\ file_verifiers[MainFile].min_lines = 1
    /\ \E other \in SameShapeSubmissions :
          VerifySubmissionOf(other).results.warnings_by_filename
              # verification_results.warnings_by_filename

(***************************************************************************)
(* Properties of the ingestion of results.                                 *)
(***************************************************************************)
\* fetch_results of a scoring run has returned and do_work is about to
Scored == pc = "return" /\ ~job.update_project

\* The transaction of the call that is about to return will commit
Commits == Scored /\ CanCommit(Db)

OnePerTestCase(rows) ==
    \A r1, r2 \in rows : r1.test_case = r2.test_case => r1 = r2

\* The test cases of the graded testable with an entry in the summary
Ran == TestCasesOf(job.testable_id) \cap DOMAIN fetched.summary

\* C25: through any sequence of scoring runs of one (submission, testable)
\* there is at most one TestCaseResult per test case, in the session and in
\* the stored state; when a run commits, the stored result of every test case
\* with an entry in the summary holds the status and extra of that entry,
\* also when an earlier run had stored a result for it.
C25_OneResultPerTestCase ==
    /\ [](OnePerTestCase(tc_results) /\ OnePerTestCase(committed.tc_results))
    /\ [][Commits =>
            \A c \in Ran :
                \E r \in committed'.tc_results :
                    /\ r.test_case = c
                    /\ r.status = fetched.summary[c].status
                    /\ r.extra = fetched.summary[c].extra]_vars

C25_Witness ==
    /\ Commits
    /\ \E c \in Ran, old \in committed.tc_results, new \in tc_results :
          /\ old.test_case = c
          /\ new.test_case = c
          /\ old.status = "success"
          /\ new.status = "signal"
          /\ new.extra = fetched.summary[c].extra

\* The test cases of the graded testable that have a result among the rows
WithResult(rows) ==
    {r.test_case : r \in rows} \cap TestCasesOf(job.testable_id)

\* C26: when fetch_results of a scoring run has returned, and in the stored
\* state once the run has committed, the test cases of the testable that have
\* a TestCaseResult are exactly those with an entry in the summary of the
\* run: the result an earlier run left for a test case without an entry is
\* deleted.
C26_ResultsFollowSummary ==
    /\ [](Scored => WithResult(tc_results) = Ran)
    /\ [][Commits => WithResult(committed'.tc_results) = Ran]_vars

C26_Witness ==
    /\ Commits
    /\ Ran # {}
    /\ \E old \in committed.tc_results :
          /\ old.test_case \in TestCasesOf(job.testable_id) \ Ran
          /\ old.test_case \notin WithResult(tc_results)

\* The TestableResult a scoring run is to leave for the graded testable
LatestResult ==
    [testable |-> job.testable_id, points |-> fetched.points,
     status |-> fetched.testable[1].status,
     make_results |-> fetched.testable[1].make]

ResultsOf(rows) == {r \in rows : r.testable = job.testable_id}

\* C27: when fetch_results of a scoring run has returned, and in the stored
\* state when do_work has ended, exactly one TestableResult exists for the
\* (submission, testable) and it holds the point total, the status and the
\* build log of that run, also when an earlier run had other points or
\* another status.
C27_OneTestableResult ==
    /\ [](Scored => ResultsOf(testable_results) = {LatestResult})
    /\ [][Scored => ResultsOf(committed'.testable_results) = {LatestResult}]_vars

\* The test cases the run earns points for: in diff mode, with an entry in
\* the summary that reports success, and with the expected output
Earning ==
    {c \in Ran : /\ test_cases[c].output_type = "diff"
                 /\ fetched.summary[c].status = "success"
                 /\ ActualOutput(fetched.outputs, c) = test_cases[c].expected}

RECURSIVE SumPoints(_)
SumPoints(cases) ==
    IF cases = {} THEN 0
    ELSE LET c == CHOOSE x \in cases : TRUE
         IN  test_cases[c].points + SumPoints(cases \ {c})

\* C28: the points a scoring run computes are the sum of the configured
\* points of the test cases in diff mode that have an entry in the summary,
\* the expected output and the status success (a differing output, another
\* status, or another output type gives nothing), and the TestableResult the
\* run builds holds that total.
C28_PointsFormula ==
    /\ (~fetched.none /\ ~job.update_project) =>
           fetched.points = SumPoints(Earning)
    /\ Scored =>
           \E r \in ResultsOf(testable_results) : r.points = SumPoints(Earning)

C28_Witness ==
    /\ Scored
    /\ fetched.points = 2
    /\ Ran = {1, 2}
    /\ test_cases[2].output_type = "diff"
    /\ ActualOutput(fetched.outputs, 1) = test_cases[1].expected
    /\ fetched.summary[1].status = "signal"
    /\ 2 \notin DOMAIN fetched.outputs

\* The test cases in diff mode whose output the run found as expected
Matching ==
    {c \in Ran : /\ test_cases[c].output_type = "diff"
                 /\ ActualOutput(fetched.outputs, c) = test_cases[c].expected}

NoDiffStored(rows) ==
    \A r \in rows : r.test_case \in Matching => r.diff = NoFile

\* C29: when fetch_results of a scoring run has returned, and in the stored
\* state once the run has committed, the TestCaseResult of a diff test case
\* whose output was the expected one has no diff artifact, also when an
\* earlier run had stored one for it.
C29_NoStaleDiff ==
    /\ [](Scored => NoDiffStored(tc_results))
    /\ [][Commits => NoDiffStored(committed'.tc_results)]_vars

\* Lines 185-218 once more: the rows and the points after fetch_results has
\* read the same results directory again, starting from the given rows
Redelivered(rows, testable_rows) ==
    LET st == IngestAll(Ingested(rows, 0), TestCasesOf(job.testable_id),
                        fetched)
    IN  [tc_results |-> st.rows,
         points |-> st.points,
         testable_results |->
             FetchOrCreate(testable_rows, fetched.testable[1].make,
                 [points |-> st.points,
                  status |-> fetched.testable[1].status,
                  testable |-> job.testable_id])]

\* C30: a scoring job delivered again with the same results directory leaves
\* what the first delivery left: when the first delivery commits, ingesting
\* the directory again changes no TestCaseResult (keys, status, extra, diff),
\* leaves the one TestableResult as it is and computes the same points; when
\* the first delivery does not commit, the second starts from the same stored
\* state and builds the same rows.
C30_RedeliveryHarmless ==
    /\ Commits =>
           /\ Redelivered(tc_results, testable_results) =
                  [tc_results |-> tc_results, points |-> fetched.points,
                   testable_results |-> testable_results]
           /\ Cardinality(ResultsOf(testable_results)) = 1
    /\ (Scored /\ ~Commits) =>
           Redelivered(committed.tc_results, committed.testable_results) =
               [tc_results |-> tc_results, points |-> fetched.points,
                testable_results |-> testable_results]

C30_Witness ==
    /\ Commits
    /\ fetched.points > 0
    /\ ResultsOf(committed.testable_results) # {}
    /\ \E r \in tc_results : r.test_case \in Ran /\ r.diff # NoFile
    /\ tc_results # committed.tc_results

(***************************************************************************)
(* Properties of the regeneration of expected outputs.                     *)
(***************************************************************************)
AnyLocked(db) == \E t \in DOMAIN db.is_locked : db.is_locked[t]

\* do_work is about to return from an update-expected-output job
Updated == pc = "return" /\ job.update_project

\* C31: while a testable of the project is locked the project is 'locked', in
\* the session and in the stored state; the stored project leaves 'locked'
\* only with the return of an update job that leaves no testable locked, and
\* it does leave 'locked' with the return of such a job.
C31_UnlockWithLastTestable ==
    /\ [](AnyLocked(Db) => status = "locked")
    /\ [](AnyLocked(committed) => committed.status = "locked")
    /\ [][committed.status = "locked" /\ committed'.status # "locked" =>
             Updated /\ ~AnyLocked(committed')]_vars
    /\ [][Updated /\ ~AnyLocked(committed') =>
             committed'.status = "notready"]_vars

C31_Witness ==
    /\ pc = "idle"
    /\ result = "success"
    /\ job.update_project
    /\ jobs_left = 0
    /\ db_before.status = "locked"
    /\ committed.status = "notready"
    /\ \E t \in Testables : t # job.testable_id

\* C32: an update-expected-output job whose fetch_results returns sets the
\* expected output of every diff test case of the testable to the output of
\* the run, leaves every other test case as it was, unlocks the testable and
\* changes no TestCaseResult and no TestableResult (so no points are stored);
\* the return of do_work stores exactly that.
C32_UpdateFrame ==
    /\ [][pc = "fetch" /\ pc' = "return" /\ job.update_project =>
             /\ \A c \in TestCases :
                   IF c \in TestCasesOf(job.testable_id)
                      /\ test_cases[c].output_type = "diff"
                   THEN test_cases'[c] =
                            [test_cases[c] EXCEPT
                                !.expected = fetched'.outputs[c]]
                   ELSE test_cases'[c] = test_cases[c]
             /\ ~is_locked'[job.testable_id]
             /\ tc_results' = tc_results
             /\ testable_results' = testable_results]_vars
    /\ [][Updated =>
             /\ committed' = Db
             /\ committed'.tc_results = committed.tc_results
             /\ committed'.testable_results = committed.testable_results]_vars

C32_Witness ==
    /\ Updated
    /\ tc_results # {}
    /\ testable_results # {}
    /\ test_cases[1].expected # committed.test_cases[1].expected
    /\ test_cases[2].output_type = "text"
    /\ 2 \in DOMAIN fetched.outputs
    /\ fetched.outputs[2] # test_cases[2].expected

\* fetch_results of an update job read a summary without an entry for some
\* test case of the testable
EntryMissing ==
    /\ job.update_project
    /\ ~fetched.none
    /\ ~(TestCasesOf(job.testable_id) \subseteq DOMAIN fetched.summary)

\* C39: an update-expected-output job whose summary lacks the entry of a test
\* case of the testable raises in fetch_results, is not retried and ends as a
\* failure; the stored state is never written, and when the call has ended
\* the testable is locked, the project is 'locked' and every test case has
\* the expected output it had before the call, in the session too.
C39_UpdateAllOrNothing ==
    /\ [][pc = "fetch" /\ EntryMissing' =>
             /\ pc' = "except"
             /\ exc' \in {"Exception", "IOError"}
             /\ committed' = committed]_vars
    /\ [](pc = "except" /\ EntryMissing => committed = db_before)
    /\ [][pc = "except" /\ EntryMissing =>
             /\ pc' = "idle"
             /\ result' = "failed"
             /\ committed' = db_before
             /\ Db' = db_before
             /\ is_locked'[job.testable_id]
             /\ status' = "locked"
             /\ test_cases' = db_before.test_cases]_vars

C39_Witness ==
    /\ pc = "except"
    /\ EntryMissing
    /\ exc = "Exception"
    /\ DOMAIN fetched.summary = {1}
    /\ test_cases[1].expected # committed.test_cases[1].expected
    /\ is_locked[job.testable_id]

(***************************************************************************)
(* Further properties of the dispatcher.                                   *)
(***************************************************************************)
\* C35: an attempt changes the priority of the claimed machine only: a
\* machine leaves the pool only by being claimed, and a machine that is in
\* the pool before and after a step of do_work has the same priority there,
\* whatever the outcome of the attempt.
C35_OthersKeepPriority ==
    /\ [][\A m \in 1..NumMachines :
             InPool(machines, m) /\ ~InPool(machines', m) =>
                 pc = "loop" /\ machine' = m]_vars
    /\ [][\A m \in 1..NumMachines :
             InPool(machines, m) /\ InPool(machines', m) =>
                 PriorityOf(machines', m) = PriorityOf(machines, m)]_vars

C35_Witness ==
    /\ pc = "idle"
    /\ result = "failed"
    /\ Len(machines) = 2
    /\ Len(pool_before) = 2
    /\ \E m \in 1..NumMachines :
          /\ PriorityOf(machines, m) = PriorityOf(pool_before, m)
          /\ \E n \in 1..NumMachines :
                /\ n # m
                /\ PriorityOf(machines, n) > PriorityOf(pool_before, n)

\* The attempt failed in kill_processes: it was the only remote call and what
\* it observed makes it raise
ReclaimFailed ==
    /\ pc = "except"
    /\ ops = <<"kill">>
    /\ KillProcesses(last_call) # "none"

\* C36: when kill_processes raises, no latency is recorded and the local
\* priority is still the one the machine was claimed with; the machine goes
\* back with that priority plus 10 after a connect timeout and plus 5 after
\* any other error, so never with a lower one; on a pool of one machine the
\* next attempt claims it with exactly that priority, so k reclaim timeouts
\* in a row raise it by 10 * k.
C36_ReclaimFailurePenalty ==
    /\ [](ReclaimFailed => elapsed = NoLatency /\ priority = popped)
    /\ [][ReclaimFailed =>
             /\ Occurrences(machines', machine) = 1
             /\ PriorityOf(machines', machine) =
                    IF exc = "SSHConnectTimeout"
                    THEN popped + TimeoutPenalty
                    ELSE popped + ExceptionPenalty
             /\ PriorityOf(machines', machine) > popped]_vars
    /\ [][pc = "loop" /\ pc' = "kill" /\ Len(machines) = 1 =>
             popped' = machines[1][1] /\ machine' = machines[1][2]]_vars

C36_Witness ==
    /\ ReclaimFailed
    /\ exc = "SSHConnectTimeout"
    /\ attempt = 2
    /\ machines = <<>>
    /\ popped = InitialPriority + 2 * TimeoutPenalty

\* A rule of the job's testable that is not optional names a file the
\* submission does not have
RequiredFileAbsent ==
    \E x \in testable_fvs[job.testable_id] :
        x \notin DOMAIN files /\ ~file_verifiers[x].optional

\* push_files raised its HandledError
StagingFailed == pc = "except" /\ exc = "HandledError"

\* C38: the eligibility failure of push_files is raised exactly when a
\* non-optional rule filename of the testable is absent from the submission,
\* and only after a machine was claimed and reclaimed; nothing is pushed,
\* executed or pulled on the machine; the call ends as a failure that is not
\* retried, and the machine goes back to the pool with the reclaim latency
\* plus 5.
C38_StagingFailureAfterReclaim ==
    /\ [](StagingFailed =>
             /\ RequiredFileAbsent
             /\ claims = 1
             /\ ops = <<"kill">>
             /\ ~InPool(machines, machine)
             /\ elapsed \in Latencies
             /\ priority = elapsed)
    /\ [][pc = "push" /\ RequiredFileAbsent =>
             /\ pc' = "except"
             /\ exc' = "HandledError"
             /\ ops' = ops]_vars
    /\ [][StagingFailed =>
             /\ pc' = "idle"
             /\ result' = "failed"
             /\ exc' = "HandledError"
             /\ attempt' = attempt
             /\ claims' = claims
             /\ Occurrences(machines', machine) = 1
             /\ PriorityOf(machines', machine) = elapsed + ExceptionPenalty]_vars

C38_Witness ==
    /\ StagingFailed
    /\ RequiredFileAbsent
    /\ ops = <<"kill">>
    /\ elapsed = MinLatency

(***************************************************************************)
(* Properties of the pending testables of a submission                    *)
(***************************************************************************)

\* VerificationResults.missing_testables: the testables some set of missing
\* files is recorded for, those Testable.fetch_by_id finds
MissingTestables(results) ==
    {t \in UNION {results.missing_to_testable_ids[k] :
                     k \in DOMAIN results.missing_to_testable_ids} :
        t \in DOMAIN is_locked}

\* Submission.testables_completed: the testables that have a TestableResult
TestablesCompleted == {r.testable : r \in testable_results}

\* Submission.testables_pending
TestablesPending ==
    ((DOMAIN is_locked) \ MissingTestables(verification_results))
        \ TestablesCompleted

\* C37: right after verify_submission the pending testables of the
\* submission are the testables verify_submission returned, whatever the
\* rules of the project's testables.
C37_PendingAreReturned ==
    Verified => TestablesPending = {t \in DOMAIN is_locked : Returned(t)}

\* The pending testables of a verified submission are those returned and
\* those that have no rule at all
PendingOrNoRules ==
    Verified =>
        TestablesPending =
            {t \in DOMAIN is_locked : Returned(t) \/ testable_fvs[t] = {}}

(***************************************************************************)
(* Properties of the views                                                 *)
(***************************************************************************)

\* The minimum of the rule or request is at most its maximum, where it has one
MinBelowMax(r) ==
    /\ r.max_size # NoLimit => r.min_size <= r.max_size
    /\ r.max_lines # NoLimit => r.min_lines <= r.max_lines

\* The last request was to file_verifier_create
Answered == response # NoResponse

\* C33: every rule created through file_verifier_create has min_size <=
\* max_size when it has a max_size and min_lines <= max_lines when it has a
\* max_lines; a request that breaks either is answered as a bad request and
\* creates no rule.
C33_CreatedWithinBounds ==
    /\ [](\A f \in DOMAIN file_verifiers : MinBelowMax(file_verifiers[f]))
    /\ [](Answered /\ response.status = "created" =>
             /\ MinBelowMax(response.request)
             /\ response.request.filename \in DOMAIN file_verifiers)
    /\ [](Answered /\ ~MinBelowMax(response.request) =>
             response.status = "bad_request")
    /\ [][Answered' /\ response'.status # "created" =>
             file_verifiers' = file_verifiers]_vars
    /\ [][file_verifiers' # file_verifiers =>
             /\ response'.status = "created"
             /\ file_verifiers' =
                    Put(file_verifiers, response'.request.filename,
                        NewFileVerifier(response'.request))
             /\ response'.request.filename \notin DOMAIN file_verifiers]_vars

C33_Witness ==
    /\ Answered
    /\ response.status = "bad_request"
    /\ response.request.max_lines # NoLimit
    /\ response.request.min_lines > response.request.max_lines
    /\ response.request.project_id = 1
    /\ response.request.filename \notin DOMAIN file_verifiers
    /\ Cardinality(DOMAIN file_verifiers) = 1

\* The last call was one of File.fetch_or_create or file_create
FileAnswered == response # NoResponse

\* The call went as far as the lookup of the File
LookedUp(r) == r.status \in {"returned", "ok"}

\* The content digest the call looked the File up with
DigestOf(r) ==
    IF r.view = "file_create" THEN r.request.sha1sum
    ELSE Sha1(r.request.data)

\* A File row holds the digest
HasDigest(table, digest) == \E i \in DOMAIN table : table[i].sha1 = digest

\* C34: whatever calls of File.fetch_or_create and file_create were made,
\* no two File rows have the same digest, and the digest of a row is the
\* digest of its content; a call with content whose digest is stored returns
\* the stored row and creates none, a call with new content adds one row;
\* file_create with a digest that is not the digest of the uploaded bytes
\* is answered as a bad request and creates no row.
C34_OneFilePerDigest ==
    /\ [](\A i, j \in DOMAIN file_table :
             file_table[i].sha1 = file_table[j].sha1 => i = j)
    /\ [](\A i \in DOMAIN file_table :
             file_table[i].sha1 = Sha1(file_table[i].data))
    /\ [][FileAnswered' /\ LookedUp(response')
             /\ HasDigest(file_table, DigestOf(response')) =>
                 /\ file_table' = file_table
                 /\ file_table[response'.file_id].sha1 = DigestOf(response')]_vars
    /\ [][FileAnswered' /\ LookedUp(response')
             /\ ~HasDigest(file_table, DigestOf(response')) =>
                 /\ Len(file_table') = Len(file_table) + 1
                 /\ SubSeq(file_table', 1, Len(file_table)) = file_table
                 /\ response'.file_id = Len(file_table')
                 /\ file_table'[response'.file_id].sha1 = DigestOf(response')]_vars
    /\ [](FileAnswered /\ response.view = "file_create"
             /\ B64Decode(response.request.b64data).ok
             /\ response.request.sha1sum #
                    Sha1(B64Decode(response.request.b64data).data) =>
                 response.status = "bad_request")
    /\ [][FileAnswered' /\ ~LookedUp(response') =>
             file_table' = file_table /\ user_files' = user_files]_vars

C34_Witness ==
    /\ FileAnswered
    /\ response.view = "file_create"
    /\ response.status = "ok"
    /\ response.file_id = 1
    /\ Len(file_table) = 2
    /\ file_table[1].data = <<"a">>
    /\ user_files = {1}

(***************************************************************************)
(* Properties of the groups                                                *)
(***************************************************************************)

\* The step is a call of group_with from one user to another user who is
\* not in a group with the first
JoinCalled ==
    /\ response' # NoResponse
    /\ response'.view = "group_with"
    /\ response'.request.from_user # response'.request.to_user
    /\ ~ /\ user_group[response'.request.from_user] # NoId
         /\ user_group[response'.request.from_user] =
                user_group[response'.request.to_user]

\* The groups of the two users of the call, before it
FromGroup == user_group[response'.request.from_user]
ToGroup == user_group[response'.request.to_user]

\* The members the merged group would have: a user without a group counts
\* for one
Members(g) == IF g = NoId THEN 1 ELSE UserCount(user_group, g)

\* The call raised for too many users, rightly, and changed nothing
Refused ==
    /\ response'.status = "too_many"
    /\ Members(FromGroup) + Members(ToGroup) > group_max
    /\ user_group' = user_group
    /\ submission_group' = submission_group

\* The call completed: both users are in one group of at most group_max
\* members, which is the larger of the two groups, and the users and the
\* submissions of the other were moved into it
Joined ==
    LET g == user_group'[response'.request.to_user]
    IN  /\ response'.status = "joined"
        /\ g # NoId
        /\ user_group'[response'.request.from_user] = g
        /\ UserCount(user_group', g) <= group_max
        /\ \A u \in Users :
              user_group'[u] =
                  IF user_group[u] \in {FromGroup, ToGroup} \ {NoId}
                     \/ u \in {response'.request.from_user,
                               response'.request.to_user}
                  THEN g ELSE user_group[u]
        /\ \A i \in DOMAIN submission_group :
              submission_group'[i] =
                  IF submission_group[i] \in {FromGroup, ToGroup}
                  THEN g ELSE submission_group[i]
        /\ Members(FromGroup) # Members(ToGroup) =>
              Members(g) = IF Members(FromGroup) > Members(ToGroup)
                           THEN Members(FromGroup) ELSE Members(ToGroup)

\* C40: for two distinct users that are not in one group already, group_with
\* either raises because the merged group would have more than group_max
\* members and changes nothing, or completes with both users in one group of
\* at most group_max members, the smaller group moved into the larger one;
\* also when neither or only one of the users has a group.
C40_GroupWithJoinsOrRefuses == [][JoinCalled => Refused \/ Joined]_vars

\* group_with ends in one of its two outcomes when both users have a group,
\* but for the direction of the move: the group kept is never the larger one
BothGrouped == JoinCalled /\ FromGroup # NoId /\ ToGroup # NoId
JoinsGroupedUsers ==
    [][BothGrouped =>
          \/ Refused
          \/ /\ response'.status = "joined"
             /\ user_group'[response'.request.from_user] =
                    user_group'[response'.request.to_user]
             /\ UserCount(user_group',
                          user_group'[response'.request.to_user]) <= group_max
             /\ Members(user_group'[response'.request.to_user]) <=
                    Members(IF user_group'[response'.request.to_user] = FromGroup
                            THEN ToGroup ELSE FromGroup)]_vars

\* group_with never completes when a user of the call has no group
NeverJoinsUngrouped ==
    [][JoinCalled /\ (FromGroup = NoId \/ ToGroup = NoId) =>
          /\ response'.status \in
                 {"too_many", "UnboundLocalError", "AttributeError"}
          /\ user_group' = user_group]_vars
====
